---- MODULE Spec2Model ----
(***************************************************************************)
(* s3-overlay-server: the caching decorator (cached_storage.go) in front   *)
(* of the domain storage service (service.go), the endpoint layer          *)
(* (endpoints), the HTTP request decoding and response encoders            *)
(* (transport.go), and func main from startup to exit.                     *)
(*                                                                         *)
(* Strings that the code inspects character by character (the Range        *)
(* header) are sequences of one-character strings.  Cache keys, which the  *)
(* code builds with fmt.Sprintf("%s/%s", ...), are sequences of path       *)
(* segments: joining segments with "/" is injective as long as no segment  *)
(* holds a "/", and a bucket name never does (route "/{bucket}/...").      *)
(*                                                                         *)
(* The ristretto cache is a library outside the repository.  It is taken   *)
(* as a linearizable map: Set is visible to the next Get and nothing is    *)
(* evicted (every entry costs 1 of 2^35).                                  *)
(***************************************************************************)
EXTENDS Integers, Sequences, FiniteSets, TLC

\* Requests issued in one behaviour: by two clients at once (Spec), by one
\* client (SpecSeq), by one client over all six routes (SpecAPI), on the
\* HEAD and list routes (SpecMeta), in calls that write and remove
\* (SpecAdmin), until the process exits (SpecMain), and in puts alone
\* (SpecWrites, SpecWritesOk).
MaxReqs == 2
MaxSeqReqs == 3
MaxApiReqs == 2
MaxMetaReqs == 2
MaxAdminReqs == 3
MaxMainReqs == 2
MaxWriteReqs == 2
MaxWarmReqs == 2
MaxPartialReqs == 2
\* Bytes of payload in a PUT with a chunked body (SpecPut).
MaxPayload == 3

\* io.ReadAll starts from make([]byte, 0, 512): the capacity of a buffered
\* body shorter than that.
ReadAllCap == 512

Max(a, b) == IF a >= b THEN a ELSE b
Min(a, b) == IF a <= b THEN a ELSE b

(***************************************************************************)
(* Errors.  api = TRUE: the error carries provider-style code and message  *)
(* (errors.As(err, &smithy.APIError) succeeds).                            *)
(***************************************************************************)
NoErr == [isErr |-> FALSE, api |-> FALSE, code |-> "", message |-> "", text |-> <<>>]

\* An error that carries provider fields: ErrorCode(), ErrorMessage(); its
\* Error() text is another string than its message.
APIErr(code, message) ==
    [isErr |-> TRUE, api |-> TRUE, code |-> code, message |-> message,
     text |-> <<"api error", code, message>>]

\* Any other error: only Error().
PlainErr(text) ==
    [isErr |-> TRUE, api |-> FALSE, code |-> "", message |-> "", text |-> <<text>>]

(***************************************************************************)
(* fmt.Sscanf on the Range header.                                         *)
(***************************************************************************)
DigitChars == {"0", "1", "2", "3", "4", "5", "6", "7", "8", "9"}

DigitVal(c) ==
    CASE c = "0" -> 0 [] c = "1" -> 1 [] c = "2" -> 2 [] c = "3" -> 3
      [] c = "4" -> 4 [] c = "5" -> 5 [] c = "6" -> 6 [] c = "7" -> 7
      [] c = "8" -> 8 [] c = "9" -> 9

ScanFail(text) == [ok |-> FALSE, val |-> 0, pos |-> 0, err |-> text]
ScanOk(v, pos) == [ok |-> TRUE, val |-> v, pos |-> pos, err |-> ""]

\* ss.SkipSpace: the first position at or after i that holds no space.
RECURSIVE SkipSpace(_, _)
SkipSpace(s, i) ==
    IF i <= Len(s) /\ s[i] = " " THEN SkipSpace(s, i + 1) ELSE i

\* ss.scanNumber's loop "for s.accept(digits) {}": the first position at or
\* after i that holds no digit.
RECURSIVE DigitsEnd(_, _)
DigitsEnd(s, i) ==
    IF i <= Len(s) /\ s[i] \in DigitChars THEN DigitsEnd(s, i + 1) ELSE i

\* strconv.ParseInt(tok, 10, 64) on the digits s[i..j-1].
RECURSIVE NumVal(_, _, _)
NumVal(s, i, j) ==
    IF j <= i THEN 0 ELSE NumVal(s, i, j - 1) * 10 + DigitVal(s[j - 1])

\* The verb %d at position i: skip spaces, an optional sign, then digits.
ScanInt(s, i) ==
    LET i1 == SkipSpace(s, i) IN
    IF i1 > Len(s) THEN ScanFail("unexpected EOF")
    ELSE LET neg == s[i1] = "-"
             i2  == IF s[i1] \in {"+", "-"} THEN i1 + 1 ELSE i1
         IN  IF i2 > Len(s) THEN ScanFail("unexpected EOF")
             ELSE IF s[i2] \notin DigitChars THEN ScanFail("expected integer")
             ELSE LET i3 == DigitsEnd(s, i2)
                      v  == NumVal(s, i2, i3)
                  IN  ScanOk(IF neg THEN 0 - v ELSE v, i3)

\* Literal text of the format at position i: every rune must be there.
RECURSIVE ScanLiteral(_, _, _)
ScanLiteral(s, i, lit) ==
    IF lit = <<>> THEN ScanOk(0, i)
    ELSE IF i > Len(s) THEN ScanFail("unexpected EOF")
    ELSE IF s[i] # Head(lit) THEN ScanFail("input does not match format")
    ELSE ScanLiteral(s, i + 1, Tail(lit))

BytesEq == <<"b", "y", "t", "e", "s", "=">>
Dash == <<"-">>

\* fmt.Sscanf(contentRange, "bytes=%d-", &start).  Input left over after the
\* format is exhausted is not an error.
parceContentRangeOpen(contentRange) ==
    LET l1 == ScanLiteral(contentRange, 1, BytesEq) IN
    IF ~l1.ok THEN [start |-> 0, err |-> PlainErr(l1.err)]
    ELSE LET d1 == ScanInt(contentRange, l1.pos) IN
    IF ~d1.ok THEN [start |-> 0, err |-> PlainErr(d1.err)]
    ELSE LET l2 == ScanLiteral(contentRange, d1.pos, Dash) IN
    IF ~l2.ok THEN [start |-> 0, err |-> PlainErr(l2.err)]
    ELSE [start |-> d1.val, err |-> NoErr]

\* fmt.Sscanf(contentRange, "bytes=%d-%d", &start, &end).
parseContentRange(contentRange) ==
    LET l1 == ScanLiteral(contentRange, 1, BytesEq) IN
    IF ~l1.ok THEN [start |-> 0, end |-> 0, err |-> PlainErr(l1.err)]
    ELSE LET d1 == ScanInt(contentRange, l1.pos) IN
    IF ~d1.ok THEN [start |-> 0, end |-> 0, err |-> PlainErr(d1.err)]
    ELSE LET l2 == ScanLiteral(contentRange, d1.pos, Dash) IN
    IF ~l2.ok THEN [start |-> 0, end |-> 0, err |-> PlainErr(l2.err)]
    ELSE LET d2 == ScanInt(contentRange, l2.pos) IN
    IF ~d2.ok THEN [start |-> 0, end |-> 0, err |-> PlainErr(d2.err)]
    ELSE [start |-> d1.val, end |-> d2.val, err |-> NoErr]

(***************************************************************************)
(* Go slice expressions on a buffered body.  The high bound of b[lo:hi] is *)
(* checked against the capacity, not the length: bytes between len and cap *)
(* are the zero bytes make() left there.                                   *)
(***************************************************************************)
CapOf(b) == Max(ReadAllCap, Len(b))

SliceOk(bytes) == [panic |-> FALSE, bytes |-> bytes]
SlicePanic == [panic |-> TRUE, bytes |-> <<>>]

ByteAt(b, i) == IF i <= Len(b) THEN b[i] ELSE 0

\* ret[start:end]
SliceClosed(b, start, end) ==
    IF start < 0 \/ start > end \/ end > CapOf(b) THEN SlicePanic
    ELSE SliceOk([i \in 1..(end - start) |-> ByteAt(b, start + i)])

\* ret[start:]
SliceOpen(b, start) ==
    IF start < 0 \/ start > Len(b) THEN SlicePanic
    ELSE SliceOk([i \in 1..(Len(b) - start) |-> b[start + i]])

(***************************************************************************)
(* strconv.Itoa: the decimal digits of n >= 0, most significant first.     *)
(***************************************************************************)
DigitChar(d) ==
    CASE d = 0 -> "0" [] d = 1 -> "1" [] d = 2 -> "2" [] d = 3 -> "3"
      [] d = 4 -> "4" [] d = 5 -> "5" [] d = 6 -> "6" [] d = 7 -> "7"
      [] d = 8 -> "8" [] d = 9 -> "9"

RECURSIVE Itoa(_)
Itoa(n) ==
    IF n < 10 THEN <<DigitChar(n)>>
    ELSE Append(Itoa(n \div 10), DigitChar(n % 10))

(***************************************************************************)
(* Objects, bodies and cache keys.                                         *)
(***************************************************************************)
\* bucket "b", key "k"; bucket "head", key "b/k".
ObjA == [bucket |-> "b", key |-> <<"k">>]
ObjB == [bucket |-> "head", key |-> <<"b", "k">>]
Objects == {ObjA, ObjB}
NoObj == [bucket |-> "", key |-> <<>>]

BodyX == <<1, 2, 3>>
BodyY == <<4, 5>>
Bodies == {BodyX, BodyY}

\* fmt.Sprintf("%s/%s", bucketName, objectKey)
BodyCacheKey(bucketName, objectKey) == <<bucketName>> \o objectKey

\* fmt.Sprintf("head/%s/%s", bucketName, objectKey)
HeadCacheKey(bucketName, objectKey) == <<"head", bucketName>> \o objectKey

CacheKeys ==
    {BodyCacheKey(o.bucket, o.key) : o \in Objects}
        \cup {HeadCacheKey(o.bucket, o.key) : o \in Objects}

(***************************************************************************)
(* Values.  A cache entry holds a []byte (kind "bytes") or a               *)
(* *s3.HeadObjectOutput (kind "head"); kind "none" is no entry.            *)
(***************************************************************************)
\* *string fields of the provider's answers: nil, or a pointer to v.
NilStr == [nil |-> TRUE, v |-> ""]
Str(v) == [nil |-> FALSE, v |-> v]
NilTag == [nil |-> TRUE, v |-> <<>>]
Tag(b) == [nil |-> FALSE, v |-> b]

\* time.Time: an instant, in seconds since the epoch, and the offset of its
\* location, in hours east of UTC.  The provider's answers carry UTC times.
UTC(n) == [unix |-> n, offset |-> 0]
Epoch == UTC(0)

NoMeta == [ContentLength |-> 0, ContentType |-> NilStr, ETag |-> NilTag,
           LastModified |-> Epoch]

Absent == [kind |-> "none", bytes |-> <<>>, meta |-> NoMeta]
BytesVal(b) == [kind |-> "bytes", bytes |-> b, meta |-> NoMeta]
HeadVal(m) == [kind |-> "head", bytes |-> <<>>, meta |-> m]

\* An object of the backing store.
NoObject ==
    [present |-> FALSE, bytes |-> <<>>, ctype |-> NilStr, etag |-> NilTag, mtime |-> Epoch]
StoredObject(b) ==
    [present |-> TRUE, bytes |-> b, ctype |-> Str("binary/octet-stream"), etag |-> Tag(b),
     mtime |-> Epoch]

\* The provider's answer to HeadObject for a stored object; the ETag is a
\* fingerprint of the content.
MetaOf(obj) ==
    [ContentLength |-> Len(obj.bytes), ContentType |-> obj.ctype,
     ETag |-> obj.etag, LastModified |-> obj.mtime]

(***************************************************************************)
(* Results of a storage operation, as the endpoint sees them.              *)
(***************************************************************************)
NoRes == [panic |-> FALSE, err |-> NoErr, bytes |-> <<>>, meta |-> NoMeta, list |-> <<>>]
RetErr(e) == [NoRes EXCEPT !.err = e]
RetBytes(b) == [NoRes EXCEPT !.bytes = b]
RetMeta(m) == [NoRes EXCEPT !.meta = m]
RetList(l) == [NoRes EXCEPT !.list = l]
RetNil == NoRes
\* A runtime panic inside the handler: nothing is returned.
Panicked == [NoRes EXCEPT !.panic = TRUE]

(***************************************************************************)
(* The backing provider behind the adapter (s3-aws.go passes every call    *)
(* through).  GetObject applies the standard HTTP range forms, end         *)
(* inclusive, and ignores a Range value it cannot read.                    *)
(***************************************************************************)
ClosedRange(s, e) == BytesEq \o Itoa(s) \o Dash \o Itoa(e)
OpenRange(s) == BytesEq \o Itoa(s) \o Dash

\* The provider's reading of a Range value: "closed", "open" or "none".
ProviderRange(r) ==
    LET l1 == ScanLiteral(r, 1, BytesEq)
        i2 == DigitsEnd(r, l1.pos)
        i4 == DigitsEnd(r, i2 + 1)
        none == [form |-> "none", first |-> 0, last |-> 0]
    IN  IF ~l1.ok \/ i2 = l1.pos \/ i2 > Len(r) THEN none
        ELSE IF r[i2] # "-" THEN none
        ELSE IF i2 = Len(r)
             THEN [form |-> "open", first |-> NumVal(r, l1.pos, i2), last |-> 0]
        ELSE IF i4 = Len(r) + 1
             THEN [form |-> "closed", first |-> NumVal(r, l1.pos, i2),
                   last |-> NumVal(r, i2 + 1, i4)]
        ELSE none

NoSuchKey == APIErr("NoSuchKey", "The specified key does not exist.")
NotFound == APIErr("NotFound", "Not Found")
NoSuchBucket == APIErr("NoSuchBucket", "The specified bucket does not exist")
InvalidRange == APIErr("InvalidRange", "The requested range is not satisfiable")

\* A call to the provider may also fail on the way (no retries), or be
\* refused with any provider code.
ConnErr == PlainErr("connection reset by peer")
SlowDown == APIErr("SlowDown", "Please reduce your request rate.")
FailErrs == {ConnErr}
AllFailErrs == {ConnErr, NoSuchKey, NotFound, NoSuchBucket, SlowDown,
                APIErr("InternalError", "We encountered an internal error.")}
PutFailErrs == {PlainErr("write: broken pipe")}

\* s3.Client.GetObject on obj with Range r, body read to the end.
ProviderGetObject(obj, r) ==
    LET n  == Len(obj.bytes)
        pr == ProviderRange(r)
    IN  IF ~obj.present THEN RetErr(NoSuchKey)
        ELSE IF r = <<>> \/ pr.form = "none" THEN RetBytes(obj.bytes)
        ELSE IF pr.form = "closed" /\ pr.first > pr.last THEN RetBytes(obj.bytes)
        ELSE IF pr.first >= n THEN RetErr(InvalidRange)
        ELSE IF pr.form = "open" THEN RetBytes(SubSeq(obj.bytes, pr.first + 1, n))
        ELSE RetBytes(SubSeq(obj.bytes, pr.first + 1, Min(pr.last, n - 1) + 1))

\* s3.Client.HeadObject
ProviderHeadObject(obj) ==
    IF ~obj.present THEN RetErr(NotFound) ELSE RetMeta(MetaOf(obj))

(***************************************************************************)
(* Domain storage service (service.go).                                    *)
(***************************************************************************)
RFC3339 == "2006-01-02T15:04:05Z07:00"
HTTPDate == "Mon, 02 Jan 2006 15:04:05 GMT"

\* time.Time.Format(layout): the text shows the wall clock of the time's
\* location (clock, in seconds), and the zone the layout has a place for:
\* the offset of the location in RFC3339, none in the HTTP-date layout,
\* whose "GMT" is literal text.
FormatTime(t, layout) ==
    [layout |-> layout, clock |-> t.unix + 3600 * t.offset,
     zone |-> IF layout = RFC3339 THEN t.offset ELSE 0]

\* The instant a text denotes to its reader.
InstantOf(text) == text.clock - 3600 * text.zone

Buckets == {o.bucket : o \in Objects}
ProviderBucket(name, created) == [Name |-> name, CreationDate |-> created]
BucketList == <<ProviderBucket("b", Epoch), ProviderBucket("head", Epoch)>>

\* cloudStorageService.ListBuckets on the provider's bucket list.
svcListBuckets(bckts) ==
    RetList([i \in 1..Len(bckts) |->
                [Name |-> bckts[i].Name,
                 CreationDate |-> FormatTime(bckts[i].CreationDate, RFC3339)]])

\* The provider's listing of a bucket, in key order: the object of the
\* bucket that the store holds (ObjA and ObjB lie in different buckets),
\* then the objects with later keys that the bucket holds besides.
ProviderObject(key, size, modified) ==
    [Key |-> key, Size |-> size, LastModified |-> modified]
ProviderContents(st, bucketName, more) ==
    LET here == {o \in Objects : o.bucket = bucketName /\ st[o].present}
    IN  (IF here = {} THEN <<>>
         ELSE LET o == CHOOSE x \in here : TRUE
              IN  <<ProviderObject(o.key, Len(st[o].bytes), st[o].mtime)>>) \o more

\* A listing that fills in an ETag and lists the newest object first.
svcListObjectsTagged(st, bucketName, more) ==
    IF bucketName \notin Buckets THEN RetErr(NoSuchBucket)
    ELSE LET objs == ProviderContents(st, bucketName, more)
             n    == Len(objs)
         IN  RetList([i \in 1..n |->
                        [Key |-> objs[n + 1 - i].Key,
                         LastModified |-> FormatTime(objs[n + 1 - i].LastModified, RFC3339),
                         ETag |-> "etag",
                         Size |-> objs[n + 1 - i].Size]])

\* cloudStorageService.ListObjects: ETag is never set.
svcListObjects(st, bucketName, more) ==
    IF bucketName \notin Buckets THEN RetErr(NoSuchBucket)
    ELSE LET objs == ProviderContents(st, bucketName, more)
         IN  RetList([i \in 1..Len(objs) |->
                        [Key |-> objs[i].Key,
                         LastModified |-> FormatTime(objs[i].LastModified, RFC3339),
                         ETag |-> "",
                         Size |-> objs[i].Size]])

\* cloudStorageService.GetObject: the provider's answer, or a failed call.
svcGetObject(st, o, contentRange, fails) ==
    {ProviderGetObject(st[o], contentRange)} \cup {RetErr(e) : e \in fails}

\* cloudStorageService.HeadObject
svcHeadObject(st, o, fails) ==
    {ProviderHeadObject(st[o])} \cup {RetErr(e) : e \in fails}

\* cloudStorageService.PutObject: NoErr and the object written, or an error.
svcPutObject(fails) == {NoErr} \cup fails

\* cloudStorageService.DeleteObject: return nil, the provider is not called.
svcDeleteObject == NoErr

\* cloudStorageService.CreateBucket, DeleteBucket: return nil.
svcCreateBucket(bucketName) == NoErr
svcDeleteBucket(bucketName) == NoErr

(***************************************************************************)
(* Caching decorator, the parts that are pure (cached_storage.go).         *)
(***************************************************************************)
\* A read that stops one byte short.
ReadAllShort(content) == SubSeq(content, 1, Len(content) - 1)

\* io.ReadAll(content) on a body that reads to the end.
ReadAll(content) == content

\* A hit that answers an unreadable range with the whole body.
GetObjectFromCacheLax(ret, contentRange) ==
    LET closed == parseContentRange(contentRange)
        open   == parceContentRangeOpen(contentRange)
    IN  IF contentRange = <<>> \/ (closed.err.isErr /\ open.err.isErr) THEN RetBytes(ret)
        ELSE LET start == IF closed.err.isErr THEN open.start ELSE closed.start
                 sl    == IF closed.end = 0 THEN SliceOpen(ret, start)
                                            ELSE SliceClosed(ret, start, closed.end)
             IN  IF sl.panic THEN Panicked ELSE RetBytes(sl.bytes)

\* GetObject served from the cached bytes ret (lines 94-111).
GetObjectFromCache(ret, contentRange) ==
    IF contentRange = <<>> THEN RetBytes(ret)
    ELSE LET closed == parseContentRange(contentRange)
             open   == parceContentRangeOpen(contentRange)
             start  == IF closed.err.isErr THEN open.start ELSE closed.start
             end    == closed.end
             err    == IF closed.err.isErr THEN open.err ELSE NoErr
         IN  IF err.isErr THEN RetErr(err)
             ELSE LET sl == IF end = 0 THEN SliceOpen(ret, start)
                                       ELSE SliceClosed(ret, start, end)
                  IN  IF sl.panic THEN Panicked ELSE RetBytes(sl.bytes)

\* A put that returns what the background write assigned.
PutObjectReturnErr(err) == err

\* PutObject's result once the body is buffered: "return nil" (line 52);
\* err is the variable the background write assigns (line 49).
PutObjectReturn(err) == NoErr

\* The ranged miss returns "…, nil" (line 137); err is the variable the
\* warm-up fetch assigns (line 132).
GetObjectReturn(value, err) == RetBytes(value)

(***************************************************************************)
(* Endpoint layer.  An endpoint returns (response, error), or panics.      *)
(***************************************************************************)
NoHeaders == [ContentLength |-> <<>>, ContentType |-> "", ETag |-> <<>>,
              LastModified |-> FormatTime(Epoch, "")]

NoResponse == [type |-> "none", Code |-> "", Message |-> <<>>, body |-> <<>>,
               Metadata |-> NoHeaders, list |-> <<>>]

APIErrorResponse(code, message) ==
    [NoResponse EXCEPT !.type = "APIErrorResponse", !.Code = code, !.Message = message]

\* code, message := "InternalError", err.Error(); if errors.As(err, &ae) then
\* ae.ErrorCode(), ae.ErrorMessage().
APIErrorFrom(err) ==
    IF err.api THEN APIErrorResponse(err.code, <<err.message>>)
    ELSE APIErrorResponse("InternalError", err.text)

Returned(response, err) == [panic |-> FALSE, response |-> response, err |-> err]
EndpointPanic == [panic |-> TRUE, response |-> NoResponse, err |-> NoErr]

\* A HEAD endpoint that renders Last-Modified as the listings do.
MakeHeadObjectEndpointRFC(r) ==
    IF r.err.isErr THEN Returned(APIErrorFrom(r.err), NoErr)
    ELSE IF r.meta.ContentType.nil \/ r.meta.ETag.nil THEN EndpointPanic
    ELSE Returned([NoResponse EXCEPT
                      !.type = "HeadObjectResponse",
                      !.Metadata = [ContentLength |-> Itoa(r.meta.ContentLength),
                                    ContentType |-> r.meta.ContentType.v,
                                    ETag |-> r.meta.ETag.v,
                                    LastModified |-> FormatTime(r.meta.LastModified, RFC3339)]],
                  NoErr)

\* A HEAD endpoint that answers absent metadata with an APIError.
MakeHeadObjectEndpointChecked(r) ==
    IF r.err.isErr THEN Returned(APIErrorFrom(r.err), NoErr)
    ELSE IF r.meta.ContentType.nil \/ r.meta.ETag.nil
         THEN Returned(APIErrorResponse("InternalError", <<"nil pointer">>), NoErr)
    ELSE Returned([NoResponse EXCEPT
                      !.type = "HeadObjectResponse",
                      !.Metadata = [ContentLength |-> Itoa(r.meta.ContentLength),
                                    ContentType |-> r.meta.ContentType.v,
                                    ETag |-> r.meta.ETag.v,
                                    LastModified |-> FormatTime(r.meta.LastModified, HTTPDate)]],
                  NoErr)

MakeHeadObjectEndpoint(r) ==
    IF r.err.isErr THEN Returned(APIErrorFrom(r.err), NoErr)
    ELSE IF r.meta.ContentType.nil \/ r.meta.ETag.nil THEN EndpointPanic
    ELSE Returned([NoResponse EXCEPT
                      !.type = "HeadObjectResponse",
                      !.Metadata = [ContentLength |-> Itoa(r.meta.ContentLength),
                                    ContentType |-> r.meta.ContentType.v,
                                    ETag |-> r.meta.ETag.v,
                                    LastModified |-> FormatTime(r.meta.LastModified, HTTPDate)]],
                  NoErr)

\* An endpoint that hands the error on.
MakeGetObjectEndpointRaise(r) ==
    IF r.err.isErr THEN Returned(NoResponse, r.err)
    ELSE Returned([NoResponse EXCEPT !.type = "GetObjectResponse", !.body = r.bytes], NoErr)

MakeGetObjectEndpoint(r) ==
    IF r.err.isErr THEN Returned(APIErrorFrom(r.err), NoErr)
    ELSE Returned([NoResponse EXCEPT !.type = "GetObjectResponse", !.body = r.bytes], NoErr)

MakeListObjectsEndpoint(r) ==
    IF r.err.isErr THEN Returned(APIErrorFrom(r.err), NoErr)
    ELSE Returned([NoResponse EXCEPT !.type = "ListObjectsResponse", !.list = r.list], NoErr)

MakeListBucketsEndpoint(r) ==
    IF r.err.isErr THEN Returned(APIErrorFrom(r.err), NoErr)
    ELSE Returned([NoResponse EXCEPT
                      !.type = "ListBucketsResponse",
                      !.list = [i \in 1..Len(r.list) |->
                                   [Name |-> r.list[i].Name,
                                    CreationDate |-> r.list[i].CreationDate]]],
                  NoErr)

MakePutObjectEndpoint(r) ==
    IF r.err.isErr THEN Returned(APIErrorFrom(r.err), NoErr)
    ELSE Returned([NoResponse EXCEPT !.type = "PutObjectResponse"], NoErr)

MakeDeleteObjectEndpoint(r) ==
    IF r.err.isErr THEN Returned(APIErrorFrom(r.err), NoErr)
    ELSE Returned([NoResponse EXCEPT !.type = "DeleteObjectResponse"], NoErr)

Ops == {"ListBuckets", "ListObjects", "HeadObject", "GetObject", "PutObject", "DeleteObject"}

\* The endpoint MakeHTTPHandler mounts for the operation; a panic in the
\* storage operation passes through it.
Endpoint(op, r) ==
    IF r.panic THEN EndpointPanic
    ELSE CASE op = "HeadObject"   -> MakeHeadObjectEndpoint(r)
           [] op = "GetObject"    -> MakeGetObjectEndpoint(r)
           [] op = "ListObjects"  -> MakeListObjectsEndpoint(r)
           [] op = "ListBuckets"  -> MakeListBucketsEndpoint(r)
           [] op = "PutObject"    -> MakePutObjectEndpoint(r)
           [] op = "DeleteObject" -> MakeDeleteObjectEndpoint(r)

(***************************************************************************)
(* HTTP transport: what goes on the wire (transport.go).                   *)
(***************************************************************************)
XMLContentType == "application/xml; charset=utf-8"

\* status 0: the connection is dropped without a response.
Aborted == [status |-> 0, contentType |-> "", headers |-> NoHeaders,
            form |-> "none", doc |-> NoResponse, raw |-> <<>>]

\* A status table without the NoSuchBucket row.
StatusCodeNoBucket(r) ==
    CASE r.Code = "NotFound" -> 404
      [] r.Code = "NoSuchKey" -> 404
      [] OTHER -> 500

\* func (r APIErrorResponse) StatusCode() int
StatusCode(r) ==
    CASE r.Code = "NotFound" -> 404
      [] r.Code = "NoSuchKey" -> 404
      [] r.Code = "NoSuchBucket" -> 404
      [] r.Code = "InternalError" -> 500
      [] OTHER -> 500

\* Only APIErrorResponse is a StatusCoder; without WriteHeader net/http
\* sends 200.
StatusOf(response) ==
    IF response.type = "APIErrorResponse" THEN StatusCode(response) ELSE 200

\* Only HeadObjectResponse is a Headerer.
HeadersOf(response) ==
    IF response.type = "HeadObjectResponse" THEN response.Metadata ELSE NoHeaders

encodeResponse(response) ==
    [status |-> StatusOf(response), contentType |-> XMLContentType,
     headers |-> HeadersOf(response), form |-> "xml", doc |-> response, raw |-> <<>>]

encodeGetObjectResponse(response) ==
    IF response.type # "GetObjectResponse" THEN encodeResponse(response)
    ELSE [status |-> 200, contentType |-> "", headers |-> NoHeaders,
          form |-> "raw", doc |-> NoResponse, raw |-> response.body]

encodeHeadResponse(response) ==
    [status |-> StatusOf(response), contentType |-> "",
     headers |-> HeadersOf(response), form |-> "none", doc |-> NoResponse, raw |-> <<>>]

\* An error encoder that maps the code as the response encoders do.
encodeErrorByCode(err) ==
    LET doc == IF err.api THEN APIErrorResponse(err.code, <<err.message>>)
                          ELSE APIErrorResponse("UnknownError", err.text)
    IN  [status |-> IF err.api THEN StatusCode(doc) ELSE 500,
         contentType |-> XMLContentType, headers |-> NoHeaders, form |-> "xml",
         doc |-> doc, raw |-> <<>>]

encodeError(err) ==
    [status |-> IF err.api THEN 404 ELSE 200, contentType |-> XMLContentType,
     headers |-> NoHeaders, form |-> "xml",
     doc |-> IF err.api THEN APIErrorResponse(err.code, <<err.message>>)
                        ELSE APIErrorResponse("UnknownError", err.text),
     raw |-> <<>>]

\* The encoder MakeHTTPHandler gives the route of the operation.
Encoder(op, response) ==
    CASE op = "GetObject"  -> encodeGetObjectResponse(response)
      [] op = "HeadObject" -> encodeHeadResponse(response)
      [] OTHER             -> encodeResponse(response)

\* One request through the server: the endpoint's error goes to the error
\* encoder, its response to the route's encoder.
Serve(op, ep) ==
    IF ep.panic THEN Aborted
    ELSE IF ep.err.isErr THEN encodeError(ep.err)
    ELSE Encoder(op, ep.response)

(***************************************************************************)
(* Request decoding for PUT (transport.go), and the streaming chunk        *)
(* reader it wraps the body in.  The reader, newSignV4ChunkedReader, is a  *)
(* file of the package that is not at hand; it follows the framing the     *)
(* specification documents: "<hex-size>;chunk-signature=<sig>" CRLF, size  *)
(* payload bytes, CRLF, ..., ended by a chunk of size zero; signatures are *)
(* not verified.  Body bytes are numbers, the framing is in ASCII.         *)
(***************************************************************************)
StreamingContentSHA256 == "STREAMING-AWS4-HMAC-SHA256-PAYLOAD"

CRLF == <<13, 10>>
\* ";chunk-signature="
ChunkSignature ==
    <<59, 99, 104, 117, 110, 107, 45, 115, 105, 103, 110, 97, 116, 117, 114, 101, 61>>
\* the signature of a chunk, here "a7"
Signature == <<97, 55>>

HexDigit(d) == IF d < 10 THEN 48 + d ELSE 87 + d

RECURSIVE Hex(_)
Hex(n) == IF n < 16 THEN <<HexDigit(n)>> ELSE Append(Hex(n \div 16), HexDigit(n % 16))

HexVal(c) ==
    IF c >= 48 /\ c <= 57 THEN c - 48
    ELSE IF c >= 97 /\ c <= 102 THEN c - 87
    ELSE IF c >= 65 /\ c <= 70 THEN c - 55
    ELSE -1

\* The first position from i on that holds no hex digit.
RECURSIVE HexEnd(_, _)
HexEnd(w, i) ==
    IF i > Len(w) \/ HexVal(w[i]) < 0 THEN i ELSE HexEnd(w, i + 1)

RECURSIVE HexNum(_, _, _)
HexNum(w, i, j) ==
    IF j <= i THEN 0 ELSE HexNum(w, i, j - 1) * 16 + HexVal(w[j - 1])

\* The first position from i on where CR LF begins, or Len(w) + 1.
RECURSIVE FindCRLF(_, _)
FindCRLF(w, i) ==
    IF i + 1 > Len(w) THEN Len(w) + 1
    ELSE IF w[i] = 13 /\ w[i + 1] = 10 THEN i
    ELSE FindCRLF(w, i + 1)

\* What a sender puts on the wire for a sequence of chunks.
RECURSIVE FrameChunks(_)
FrameChunks(chunks) ==
    IF chunks = <<>> THEN Hex(0) \o ChunkSignature \o Signature \o CRLF \o CRLF
    ELSE Hex(Len(Head(chunks))) \o ChunkSignature \o Signature \o CRLF
            \o Head(chunks) \o CRLF \o FrameChunks(Tail(chunks))

\* Reading the chunk reader to the end, from position i with the payload acc
\* read so far: the payload, or a framing error.
RECURSIVE ChunkedRead(_, _, _)
ChunkedRead(w, i, acc) ==
    LET j     == HexEnd(w, i)
        eol   == FindCRLF(w, j)
        sigOk == /\ j > i /\ eol <= Len(w)
                 /\ SubSeq(w, j, j + Len(ChunkSignature) - 1) = ChunkSignature
                 /\ j + Len(ChunkSignature) <= eol
        size  == HexNum(w, i, j)
        from  == eol + 2
    IN  IF ~sigOk THEN [ok |-> FALSE, bytes |-> acc]
        ELSE IF size = 0 THEN [ok |-> TRUE, bytes |-> acc]
        ELSE IF from + size + 1 > Len(w) THEN [ok |-> FALSE, bytes |-> acc]
        ELSE IF SubSeq(w, from + size, from + size + 1) # CRLF
             THEN [ok |-> FALSE, bytes |-> acc]
        ELSE ChunkedRead(w, from + size + 2, acc \o SubSeq(w, from, from + size - 1))

\* An io.ReadCloser over the request body: the body itself, or the chunk
\* reader around it.
PlainBody(raw) == [chunked |-> FALSE, raw |-> raw]
ChunkedBody(raw) == [chunked |-> TRUE, raw |-> raw]

\* io.ReadAll on it.
ReadBody(body) ==
    IF body.chunked THEN ChunkedRead(body.raw, 1, <<>>)
    ELSE [ok |-> TRUE, bytes |-> body.raw]

\* The reader's constructor: the reader, or for a body whose framing is
\* broken possibly an error at once.
MalformedErrs ==
    {PlainErr("malformed chunked encoding"),
     APIErr("IncompleteBody", "The request body terminated unexpectedly")}

newSignV4ChunkedReader(r) ==
    {[err |-> NoErr, reader |-> ChunkedBody(r.Body)]}
        \cup IF ChunkedRead(r.Body, 1, <<>>).ok THEN {}
             ELSE {[err |-> e, reader |-> PlainBody(<<>>)] : e \in MalformedErrs}

\* The request as the PUT decoder reads it; r.ContentLength is the length
\* of the body on the wire.
HTTPPut(contentSHA256, decodedContentLength, body) ==
    [Method |-> "PUT", ContentSHA256 |-> contentSHA256,
     DecodedContentLength |-> decodedContentLength,
     Body |-> body, ContentLength |-> Len(body)]
NoHTTP == [Method |-> "", ContentSHA256 |-> "", DecodedContentLength |-> <<>>,
           Body |-> <<>>, ContentLength |-> 0]

isRequestSignStreamingV4(r) ==
    r.ContentSHA256 = StreamingContentSHA256 /\ r.Method = "PUT"

\* contentLength, _ = strconv.ParseInt(s, 10, 64): 0 when s is no number.
ParseInt(s) ==
    LET signed == Len(s) >= 1 /\ s[1] \in {"+", "-"}
        i      == IF signed THEN 2 ELSE 1
        j      == DigitsEnd(s, i)
    IN  IF j = i \/ j # Len(s) + 1 THEN 0
        ELSE IF signed /\ s[1] = "-" THEN 0 - NumVal(s, i, j)
        ELSE NumVal(s, i, j)

\* A decoder that keeps the length of the request on the wire.
decodePutObjectRequestRaw(r) ==
    IF isRequestSignStreamingV4(r)
    THEN {[err |-> n.err, ObjectBody |-> n.reader,
           ContentLength |-> IF n.err.isErr THEN 0 ELSE r.ContentLength]
            : n \in newSignV4ChunkedReader(r)}
    ELSE {[err |-> NoErr, ObjectBody |-> PlainBody(r.Body), ContentLength |-> r.ContentLength]}

\* decodePutObjectRequest: the error, or the PutObjectRequest's body and
\* content length.
decodePutObjectRequest(r) ==
    IF isRequestSignStreamingV4(r)
    THEN {[err |-> n.err, ObjectBody |-> n.reader,
           ContentLength |-> IF n.err.isErr THEN 0 ELSE ParseInt(r.DecodedContentLength)]
            : n \in newSignV4ChunkedReader(r)}
    ELSE {[err |-> NoErr, ObjectBody |-> PlainBody(r.Body), ContentLength |-> r.ContentLength]}

(***************************************************************************)
(* State.                                                                  *)
(***************************************************************************)
Clients == {"c1", "c2"}

\* Range headers the clients send: none, bytes=1-2, bytes=0-0, bytes=3- and
\* the unreadable bytes=x.
BadRange == BytesEq \o <<"x">>
Ranges == {<<>>, ClosedRange(1, 2)}
AllRanges == {<<>>, ClosedRange(1, 2), ClosedRange(0, 0), OpenRange(3), BadRange}

ReadErr == PlainErr("unexpected EOF")

\* PUT bodies: every payload of up to MaxPayload bytes, split into chunks
\* after the positions in cuts.
PayloadBytes == {7, 13}
RECURSIVE SeqsUpTo(_, _)
SeqsUpTo(S, n) ==
    IF n = 0 THEN {<<>>}
    ELSE LET shorter == SeqsUpTo(S, n - 1)
         IN  shorter \cup {Append(q, x) : q \in {t \in shorter : Len(t) = n - 1}, x \in S}
Payloads == SeqsUpTo(PayloadBytes, MaxPayload)

RECURSIVE Split(_, _, _)
Split(payload, cuts, from) ==
    IF from > Len(payload) THEN <<>>
    ELSE LET later == {c \in cuts : c >= from}
             to    == IF later = {} THEN Len(payload)
                      ELSE CHOOSE c \in later : \A c2 \in later : c <= c2
         IN  <<SubSeq(payload, from, to)>> \o Split(payload, cuts, to + 1)
Chunkings(payload) ==
    {Split(payload, cuts, 1) : cuts \in SUBSET (1..(Len(payload) - 1))}

\* The x-amz-decoded-content-length header a sender gives for a payload:
\* its length, another number, or none.
DecodedLengths(payload) == {Itoa(Len(payload)), Itoa(Len(payload) + 4), <<>>}

\* Every payload in every split, with the body that goes over the wire.
Framings ==
    UNION {{[payload |-> payload, chunks |-> chunks, body |-> FrameChunks(chunks)] :
               chunks \in Chunkings(payload)} : payload \in Payloads}

\* A framed body that stops half way.
CutShort(w) == SubSeq(w, 1, Len(w) \div 2)

NoKnown == [src |-> "none", bytes |-> <<>>]

VARIABLES
    store,      \* the provider's objects: Objects -> stored object
    cache,      \* the ristretto cache: CacheKeys -> entry
    procs,      \* the request each client has in the server, and its position
    tasks,      \* goroutines started with "go func()" that have not finished
    nreq,       \* requests issued so far
    load,       \* the run: which clients send, how many requests, which Range
                \* headers, which failures of the provider
    known,      \* history: per object, the body last acknowledged by a put or
                \* last returned by a full get, with no put or delete since
    donePuts,   \* history: per object, the bodies of the puts that returned nil
    writer,     \* history: per cache key, the operation that wrote it last
    main        \* func main and its two goroutines, after startup

vars == <<store, cache, procs, tasks, nreq, load, known, donePuts, writer, main>>

\* main is blocked in "<-errs" (pc "wait") or has logged what it received and
\* returned (pc "exit", exit the value logged).  c is the signal its first
\* goroutine took from the channel c and is sending on errs; served is the
\* error its second goroutine got from http.ListenAndServe and is sending.
Waiting == [pc |-> "wait", c |-> "none", served |-> "serving", exit |-> "none"]
Signals == {"interrupt", "terminated"}
ListenErrs == {"accept: too many open files"}
Running == main.pc = "wait"
Serving == Running /\ main.served = "serving"

IdleProc ==
    [pc |-> "idle", id |-> 0, op |-> "none", obj |-> NoObj, bucket |-> "",
     range |-> <<>>, content |-> <<>>,
     length |-> 0,          \* PutObjectRequest.ContentLength
     http |-> NoHTTP,       \* the PUT request as it arrived
     derr |-> NoErr,        \* the decoder's error
     seen |-> Absent,       \* what cache.Get returned
     value |-> Absent,      \* the buffered body or the fetched metadata
     err |-> NoErr,         \* the handler's variable err, which its goroutine assigns
     calls |-> 0,           \* calls to the domain service made for this request
     expect |-> NoKnown,    \* history: known[obj] when a full get began
     clean |-> TRUE,        \* history: no put or delete on obj since this began
     res |-> NoRes, ep |-> Returned(NoResponse, NoErr), wire |-> Aborted]

Start(l) ==
    /\ load = l
    /\ main = Waiting
    /\ store \in [Objects -> l.objects]
    /\ cache = [k \in CacheKeys |-> Absent]
    /\ procs = [p \in Clients |-> IdleProc]
    /\ tasks = {}
    /\ nreq = 0
    /\ known = [o \in Objects |-> NoKnown]
    /\ donePuts = [o \in Objects |-> {}]
    /\ writer = [k \in CacheKeys |-> "none"]

\* The clients, the number of requests, the Range headers and the provider
\* failures of a run, over a store whose objects are absent or hold BodyX.
Workload(clients, max, ranges, fails) ==
    [clients |-> clients, max |-> max, ranges |-> ranges, fails |-> fails,
     objects |-> {NoObject, StoredObject(BodyX)},
     putFails |-> PutFailErrs, bucketList |-> BucketList, more |-> <<>>]

Init == Start(Workload({"c1", "c2"}, MaxReqs, Ranges, FailErrs))
InitSeq == Start(Workload({"c1"}, MaxSeqReqs, Ranges, FailErrs))
InitAPI == Start(Workload({"c1"}, MaxApiReqs, AllRanges, AllFailErrs))
\* One PUT: decoding keeps nothing from one request to the next.
InitPut == Start(Workload({"c1"}, 1, {<<>>}, FailErrs))
InitMain == Start(Workload({"c1"}, MaxMainReqs, {<<>>}, FailErrs))
InitWrites == Start(Workload({"c1"}, MaxWriteReqs, {<<>>}, FailErrs))
\* Puts whose backing writes all succeed.
InitWritesOk ==
    Start([Workload({"c1"}, MaxWriteReqs, {<<>>}, FailErrs) EXCEPT !.putFails = {}])
InitWarm == Start(Workload({"c1"}, MaxWarmReqs, Ranges, FailErrs))
InitAdmin == Start(Workload({"c1"}, MaxAdminReqs, {<<>>}, AllFailErrs))

\* Objects, bucket lists and listings with metadata that differs from one
\* to the next.
MetaObject(b, t, m) ==
    [present |-> TRUE, bytes |-> b, ctype |-> Str(t), etag |-> Tag(b), mtime |-> UTC(m)]
MetaObjects == {NoObject, MetaObject(BodyX, "text/plain", 1),
                MetaObject(BodyY, "binary/octet-stream", 2)}
BucketLists == {<<>>, <<ProviderBucket("b", UTC(1)), ProviderBucket("head", UTC(2))>>,
                <<ProviderBucket("head", UTC(2)), ProviderBucket("b", UTC(1))>>}
MoreContents == {<<>>, <<ProviderObject(<<"m">>, 2, UTC(2)), ProviderObject(<<"n">>, 0, UTC(1))>>}
InitMeta ==
    \E bckts \in BucketLists, more \in MoreContents :
        Start([Workload({"c1"}, MaxMetaReqs, {<<>>}, AllFailErrs) EXCEPT
                  !.objects = MetaObjects, !.bucketList = bckts, !.more = more])

\* Objects for which the provider's HeadObjectOutput lacks the content type,
\* the ETag or both (nil pointers), beside one that has them.
PartialObjects ==
    {NoObject, StoredObject(BodyX),
     [StoredObject(BodyX) EXCEPT !.ctype = NilStr],
     [StoredObject(BodyY) EXCEPT !.etag = NilTag],
     [StoredObject(BodyY) EXCEPT !.ctype = NilStr, !.etag = NilTag]}
InitPartial ==
    Start([Workload({"c1"}, MaxPartialReqs, {<<>>}, AllFailErrs) EXCEPT
              !.objects = PartialObjects])

\* The request is answered: the storage result r goes through the endpoint
\* and the route's encoder.
Finish(rec, r) ==
    [rec EXCEPT !.pc = "done", !.res = r,
                !.ep = Endpoint(rec.op, r),
                !.wire = Serve(rec.op, Endpoint(rec.op, r))]

\* History bookkeeping: a put or delete on object o is "in between" for
\* every other request on o that is under way.
Touched(rec, o, touch) ==
    IF touch /\ rec.obj = o /\ rec.pc \notin {"idle", "done"}
    THEN [rec EXCEPT !.expect = NoKnown, !.clean = FALSE]
    ELSE rec

WithProc(p, rec, o, touch) ==
    [q \in Clients |-> IF q = p THEN rec ELSE Touched(procs[q], o, touch)]

\* A client sends its next request once the last one is answered.  The two
\* clients are interchangeable: c2 is the one that sends while c1 has a
\* request under way.
Free(p) == procs[p].pc \in {"idle", "done"}
CanIssue(p) ==
    /\ Serving
    /\ p \in load.clients
    /\ Free(p) /\ nreq < load.max
    /\ p = "c2" => ~Free("c1")

NewRequest(op, o) ==
    [IdleProc EXCEPT !.id = nreq + 1, !.op = op, !.obj = o, !.bucket = o.bucket]

\* The goroutine of request id assigns e to the variable err of the handler
\* that started it, if that handler has not returned yet.
AssignErr(id, e) ==
    [q \in Clients |->
        IF procs[q].id = id /\ procs[q].pc \in {"put_ret", "get_ret"}
        THEN [procs[q] EXCEPT !.err = e] ELSE procs[q]]

(***************************************************************************)
(* cachedCloudStorage.GetObject                                            *)
(***************************************************************************)
\* Lines 90-113: the lookup, and the answer from the cache on a hit.
GetObject(p, o, contentRange) ==
    LET cacheKey == BodyCacheKey(o.bucket, o.key)
        value    == cache[cacheKey]
        full     == contentRange = <<>>
        rec      == [NewRequest("GetObject", o) EXCEPT
                        !.range = contentRange, !.seen = value,
                        !.expect = IF full THEN known[o] ELSE NoKnown]
        r        == GetObjectFromCache(value.bytes, contentRange)
    IN  /\ CanIssue(p)
        /\ nreq' = nreq + 1
        /\ IF value.kind = "bytes"
           THEN /\ procs' = WithProc(p, Finish(rec, r), o, FALSE)
                /\ known' = IF full THEN [known EXCEPT ![o] = [src |-> "get", bytes |-> r.bytes]]
                                    ELSE known
           ELSE /\ procs' = WithProc(p, [rec EXCEPT !.pc = "get_fetch"], o, FALSE)
                /\ known' = IF full /\ known[o].src = "put"
                            THEN [known EXCEPT ![o] = NoKnown] ELSE known
        /\ UNCHANGED <<store, cache, tasks, donePuts, writer, load, main>>

\* A miss that starts the warm-up of a ranged read before it looks at the
\* error of the domain service.
GetObjectFetchWarm(p) ==
    LET rec == procs[p] IN
    /\ rec.pc = "get_fetch"
    /\ \E r \in svcGetObject(store, rec.obj, rec.range, load.fails) :
          LET rec1 == [rec EXCEPT !.calls = @ + 1] IN
          /\ procs' = WithProc(p,
                         IF r.err.isErr THEN Finish(rec1, RetErr(r.err))
                         ELSE [rec1 EXCEPT !.pc = "get_fill",
                                           !.value = BytesVal(ReadAll(r.bytes))],
                         rec.obj, FALSE)
          /\ tasks' = IF r.err.isErr /\ rec.range # <<>>
                      THEN tasks \cup {[id |-> rec.id, kind |-> "warm", obj |-> rec.obj,
                                        pc |-> "start", value |-> Absent, length |-> 0]}
                      ELSE tasks
    /\ UNCHANGED <<store, cache, nreq, known, donePuts, writer, load, main>>

\* Lines 115-123: the miss goes to the domain service and buffers the body.
GetObjectFetch(p) ==
    LET rec == procs[p] IN
    /\ rec.pc = "get_fetch"
    /\ \E r \in svcGetObject(store, rec.obj, rec.range, load.fails) :
          LET rec1 == [rec EXCEPT !.calls = @ + 1] IN
          procs' = WithProc(p,
                      IF r.err.isErr THEN Finish(rec1, RetErr(r.err))
                      ELSE [rec1 EXCEPT !.pc = "get_fill", !.value = BytesVal(ReadAll(r.bytes))],
                      rec.obj, FALSE)
    /\ UNCHANGED <<store, cache, tasks, nreq, known, donePuts, writer, load, main>>

\* Lines 125-135 without the test of line 126: whatever was fetched is cached.
GetObjectFillAlways(p) ==
    LET rec      == procs[p]
        cacheKey == BodyCacheKey(rec.obj.bucket, rec.obj.key)
    IN  /\ rec.pc = "get_fill"
        /\ cache' = [cache EXCEPT ![cacheKey] = rec.value]
        /\ writer' = [writer EXCEPT ![cacheKey] = "fill"]
        /\ IF rec.range = <<>>
           THEN /\ procs' = WithProc(p, Finish(rec, GetObjectReturn(rec.value.bytes, rec.err)),
                                     rec.obj, FALSE)
                /\ UNCHANGED tasks
           ELSE /\ tasks' = tasks \cup {[id |-> rec.id, kind |-> "warm", obj |-> rec.obj,
                                         pc |-> "start", value |-> Absent,
                                         length |-> 0]}
                /\ procs' = WithProc(p, [rec EXCEPT !.pc = "get_ret"], rec.obj, FALSE)
        /\ UNCHANGED <<store, nreq, known, donePuts, load, main>>

\* Lines 125-135: a full body is cached and returned; a ranged one starts
\* the warm-up goroutine.
GetObjectFill(p) ==
    LET rec      == procs[p]
        cacheKey == BodyCacheKey(rec.obj.bucket, rec.obj.key)
    IN  /\ rec.pc = "get_fill"
        /\ IF rec.range = <<>>
           THEN /\ cache' = [cache EXCEPT ![cacheKey] = rec.value]
                /\ writer' = [writer EXCEPT ![cacheKey] = "fill"]
                /\ procs' = WithProc(p, Finish(rec, GetObjectReturn(rec.value.bytes, rec.err)),
                                     rec.obj, FALSE)
                /\ known' = IF rec.clean
                            THEN [known EXCEPT ![rec.obj] =
                                     [src |-> "get", bytes |-> rec.value.bytes]]
                            ELSE known
                /\ UNCHANGED tasks
           ELSE /\ tasks' = tasks \cup {[id |-> rec.id, kind |-> "warm", obj |-> rec.obj,
                                         pc |-> "start", value |-> Absent,
                                         length |-> 0]}
                /\ procs' = WithProc(p, [rec EXCEPT !.pc = "get_ret"], rec.obj, FALSE)
                /\ UNCHANGED <<cache, writer, known>>
        /\ UNCHANGED <<store, nreq, donePuts, load, main>>

\* Line 137: the ranged miss returns the bytes it fetched.
GetObjectRet(p) ==
    LET rec == procs[p] IN
    /\ rec.pc = "get_ret"
    /\ procs' = WithProc(p, Finish(rec, GetObjectReturn(rec.value.bytes, rec.err)),
                         rec.obj, FALSE)
    /\ UNCHANGED <<store, cache, tasks, nreq, known, donePuts, writer, load, main>>

(***************************************************************************)
(* cachedCloudStorage.PutObject                                            *)
(***************************************************************************)
\* A put that caches what it could read of a body whose read failed.
PutObjectOfRequestPartial(p, o, content, readOk, length, r) ==
    LET rec      == [NewRequest("PutObject", o) EXCEPT !.content = content,
                                                       !.length = length, !.http = r]
        cacheKey == BodyCacheKey(o.bucket, o.key)
    IN  /\ CanIssue(p)
        /\ nreq' = nreq + 1
        /\ procs' = WithProc(p,
                       IF readOk
                       THEN [rec EXCEPT !.pc = "put_set", !.value = BytesVal(ReadAll(content))]
                       ELSE Finish(rec, RetErr(ReadErr)),
                       o, TRUE)
        /\ known' = [known EXCEPT ![o] = NoKnown]
        /\ cache' = IF readOk THEN cache ELSE [cache EXCEPT ![cacheKey] = BytesVal(content)]
        /\ writer' = IF readOk THEN writer ELSE [writer EXCEPT ![cacheKey] = "put"]
        /\ UNCHANGED <<store, tasks, donePuts, load, main>>

\* Lines 37-42: the body is read to the end, or the read fails.
PutObjectOfRequest(p, o, content, readOk, length, r) ==
    LET rec == [NewRequest("PutObject", o) EXCEPT !.content = content,
                                                  !.length = length, !.http = r] IN
    /\ CanIssue(p)
    /\ nreq' = nreq + 1
    /\ procs' = WithProc(p,
                   IF readOk
                   THEN [rec EXCEPT !.pc = "put_set", !.value = BytesVal(ReadAll(content))]
                   ELSE Finish(rec, RetErr(ReadErr)),
                   o, TRUE)
    /\ known' = [known EXCEPT ![o] = NoKnown]
    /\ UNCHANGED <<store, cache, tasks, donePuts, writer, load, main>>

\* A PUT whose body is sent as it is: ContentLength is the request's.
PutObject(p, o, content, readOk) ==
    PutObjectOfRequest(p, o, content, readOk, Len(content), NoHTTP)

\* The PUT route on request r (transport.go lines 83-87): the decoder's
\* error goes to the error encoder and the endpoint is not called; otherwise
\* the endpoint calls PutObject with the decoded body and content length.
PutRoute(p, o, r) ==
    \E d \in decodePutObjectRequest(r) :
        IF d.err.isErr
        THEN /\ CanIssue(p)
             /\ nreq' = nreq + 1
             /\ procs' = WithProc(p, [NewRequest("PutObject", o) EXCEPT
                                         !.pc = "done", !.http = r, !.derr = d.err,
                                         !.wire = encodeError(d.err)],
                                  o, FALSE)
             /\ UNCHANGED <<store, cache, tasks, known, donePuts, writer, load, main>>
        ELSE LET rd == ReadBody(d.ObjectBody)
             IN  PutObjectOfRequest(p, o, rd.bytes, rd.ok, d.ContentLength, r)

\* A put that drops the cached metadata of its key along with storing the body.
PutObjectSetInvalidate(p) ==
    LET rec      == procs[p]
        cacheKey == BodyCacheKey(rec.obj.bucket, rec.obj.key)
        headKey  == HeadCacheKey(rec.obj.bucket, rec.obj.key)
    IN  /\ rec.pc = "put_set"
        /\ cache' = [cache EXCEPT ![cacheKey] = rec.value, ![headKey] = Absent]
        /\ writer' = [writer EXCEPT ![cacheKey] = "put", ![headKey] = "put"]
        /\ tasks' = tasks \cup {[id |-> rec.id, kind |-> "put", obj |-> rec.obj,
                                 pc |-> "start", value |-> rec.value,
                                 length |-> rec.length]}
        /\ procs' = WithProc(p, [rec EXCEPT !.pc = "put_ret"], rec.obj, TRUE)
        /\ known' = [known EXCEPT ![rec.obj] = NoKnown]
        /\ UNCHANGED <<store, nreq, donePuts, load, main>>

\* Lines 43-51: the body goes into the cache and the backing write is
\* handed to a goroutine.
PutObjectSet(p) ==
    LET rec      == procs[p]
        cacheKey == BodyCacheKey(rec.obj.bucket, rec.obj.key)
    IN  /\ rec.pc = "put_set"
        /\ cache' = [cache EXCEPT ![cacheKey] = rec.value]
        /\ writer' = [writer EXCEPT ![cacheKey] = "put"]
        /\ tasks' = tasks \cup {[id |-> rec.id, kind |-> "put", obj |-> rec.obj,
                                 pc |-> "start", value |-> rec.value,
                                 length |-> rec.length]}
        /\ procs' = WithProc(p, [rec EXCEPT !.pc = "put_ret"], rec.obj, TRUE)
        /\ known' = [known EXCEPT ![rec.obj] = NoKnown]
        /\ UNCHANGED <<store, nreq, donePuts, load, main>>

\* Line 52: return nil.
PutObjectRet(p) ==
    LET rec == procs[p]
        e   == PutObjectReturn(rec.err)
    IN  /\ rec.pc = "put_ret"
        /\ procs' = WithProc(p, Finish(rec, RetErr(e)), rec.obj, TRUE)
        /\ known' = [known EXCEPT ![rec.obj] =
                        IF rec.clean /\ ~e.isErr
                        THEN [src |-> "put", bytes |-> rec.content] ELSE NoKnown]
        /\ donePuts' = IF e.isErr THEN donePuts
                       ELSE [donePuts EXCEPT ![rec.obj] = @ \cup {rec.content}]
        /\ UNCHANGED <<store, cache, tasks, nreq, writer, load, main>>

(***************************************************************************)
(* cachedCloudStorage.HeadObject                                           *)
(***************************************************************************)
\* Lines 55-61: the lookup, and the answer from the cache on a hit.
HeadObject(p, o) ==
    LET cacheKey == HeadCacheKey(o.bucket, o.key)
        value    == cache[cacheKey]
        rec      == [NewRequest("HeadObject", o) EXCEPT !.seen = value]
    IN  /\ CanIssue(p)
        /\ nreq' = nreq + 1
        /\ procs' = WithProc(p,
                       IF value.kind = "head" THEN Finish(rec, RetMeta(value.meta))
                       ELSE [rec EXCEPT !.pc = "head_fetch"],
                       o, FALSE)
        /\ UNCHANGED <<store, cache, tasks, known, donePuts, writer, load, main>>

\* Lines 63-66: the miss goes to the domain service.
HeadObjectFetch(p) ==
    LET rec == procs[p] IN
    /\ rec.pc = "head_fetch"
    /\ \E r \in svcHeadObject(store, rec.obj, load.fails) :
          LET rec1 == [rec EXCEPT !.calls = @ + 1] IN
          procs' = WithProc(p,
                      IF r.err.isErr THEN Finish(rec1, RetErr(r.err))
                      ELSE [rec1 EXCEPT !.pc = "head_store", !.value = HeadVal(r.meta)],
                      rec.obj, FALSE)
    /\ UNCHANGED <<store, cache, tasks, nreq, known, donePuts, writer, load, main>>

\* A miss that returns the metadata without caching it.
HeadObjectStoreSkip(p) ==
    LET rec == procs[p] IN
    /\ rec.pc = "head_store"
    /\ procs' = WithProc(p, Finish(rec, RetMeta(rec.value.meta)), rec.obj, FALSE)
    /\ UNCHANGED <<store, cache, writer, tasks, nreq, known, donePuts, load, main>>

\* Lines 68-70: the metadata is cached and returned.
HeadObjectStore(p) ==
    LET rec      == procs[p]
        cacheKey == HeadCacheKey(rec.obj.bucket, rec.obj.key)
    IN  /\ rec.pc = "head_store"
        /\ cache' = [cache EXCEPT ![cacheKey] = rec.value]
        /\ writer' = [writer EXCEPT ![cacheKey] = "head"]
        /\ procs' = WithProc(p, Finish(rec, RetMeta(rec.value.meta)), rec.obj, FALSE)
        /\ UNCHANGED <<store, tasks, nreq, known, donePuts, load, main>>

(***************************************************************************)
(* cachedCloudStorage.DeleteObject, ListBuckets, ListObjects               *)
(***************************************************************************)
\* A delete that drops the metadata entry along with the body entry.
CacheAfterDeleteBoth(c, bucketName, objectKey, err) ==
    IF err.isErr THEN c
    ELSE [c EXCEPT ![BodyCacheKey(bucketName, objectKey)] = Absent,
                   ![HeadCacheKey(bucketName, objectKey)] = Absent]

\* The cache after DeleteObject(bucketName, objectKey) returned err.
CacheAfterDelete(c, bucketName, objectKey, err) ==
    IF err.isErr THEN c
    ELSE [c EXCEPT ![BodyCacheKey(bucketName, objectKey)] = Absent]

\* A delete that reaches the backing store.
DeleteObjectThrough(p, o) ==
    LET cacheKey == BodyCacheKey(o.bucket, o.key)
    IN  /\ CanIssue(p)
        /\ nreq' = nreq + 1
        /\ \E err \in {NoErr} \cup load.fails :
              /\ store' = IF err.isErr THEN store ELSE [store EXCEPT ![o] = NoObject]
              /\ cache' = CacheAfterDelete(cache, o.bucket, o.key, err)
              /\ writer' = IF err.isErr THEN writer
                            ELSE [writer EXCEPT ![cacheKey] = "delete"]
              /\ procs' = WithProc(p, Finish(NewRequest("DeleteObject", o), RetErr(err)),
                                   o, TRUE)
        /\ known' = [known EXCEPT ![o] = NoKnown]
        /\ UNCHANGED <<tasks, donePuts, load, main>>

DeleteObject(p, o) ==
    LET err      == svcDeleteObject
        cacheKey == BodyCacheKey(o.bucket, o.key)
    IN  /\ CanIssue(p)
        /\ nreq' = nreq + 1
        /\ cache' = CacheAfterDelete(cache, o.bucket, o.key, err)
        /\ writer' = IF err.isErr THEN writer ELSE [writer EXCEPT ![cacheKey] = "delete"]
        /\ procs' = WithProc(p, Finish(NewRequest("DeleteObject", o), RetErr(err)), o, TRUE)
        /\ known' = [known EXCEPT ![o] = NoKnown]
        /\ UNCHANGED <<store, tasks, donePuts, load, main>>

\* Lines 25-31: CreateBucket and DeleteBucket hand the call to the domain
\* service.  No route leads to them; they are calls on the storage itself.
CreateBucket(p, bucketName) ==
    /\ CanIssue(p)
    /\ nreq' = nreq + 1
    /\ procs' = WithProc(p, [NewRequest("CreateBucket", NoObj) EXCEPT
                                !.bucket = bucketName, !.calls = 1, !.pc = "done",
                                !.res = RetErr(svcCreateBucket(bucketName))],
                         NoObj, FALSE)
    /\ UNCHANGED <<store, cache, tasks, known, donePuts, writer, load, main>>

DeleteBucket(p, bucketName) ==
    /\ CanIssue(p)
    /\ nreq' = nreq + 1
    /\ procs' = WithProc(p, [NewRequest("DeleteBucket", NoObj) EXCEPT
                                !.bucket = bucketName, !.calls = 1, !.pc = "done",
                                !.res = RetErr(svcDeleteBucket(bucketName))],
                         NoObj, FALSE)
    /\ UNCHANGED <<store, cache, tasks, known, donePuts, writer, load, main>>

ListBuckets(p) ==
    /\ CanIssue(p)
    /\ nreq' = nreq + 1
    /\ \E r \in {svcListBuckets(load.bucketList)} \cup {RetErr(e) : e \in load.fails} :
          procs' = WithProc(p, Finish([NewRequest("ListBuckets", NoObj) EXCEPT !.calls = 1], r),
                            NoObj, FALSE)
    /\ UNCHANGED <<store, cache, tasks, known, donePuts, writer, load, main>>

\* A listing that counts a cached body as an object of the bucket.
ListObjectsCached(p, bucketName) ==
    LET seen == [o \in Objects |->
                    LET entry == cache[BodyCacheKey(o.bucket, o.key)]
                    IN  IF entry.kind = "bytes" THEN StoredObject(entry.bytes) ELSE store[o]]
    IN  /\ CanIssue(p)
        /\ nreq' = nreq + 1
        /\ \E r \in {svcListObjects(seen, bucketName, load.more)}
                        \cup {RetErr(e) : e \in load.fails} :
              procs' = WithProc(p,
                          Finish([NewRequest("ListObjects", NoObj) EXCEPT
                                     !.bucket = bucketName, !.calls = 1], r),
                          NoObj, FALSE)
        /\ UNCHANGED <<store, cache, tasks, known, donePuts, writer, load, main>>

ListObjects(p, bucketName) ==
    /\ CanIssue(p)
    /\ nreq' = nreq + 1
    /\ \E r \in {svcListObjects(store, bucketName, load.more)} \cup {RetErr(e) : e \in load.fails} :
          procs' = WithProc(p,
                      Finish([NewRequest("ListObjects", NoObj) EXCEPT
                                 !.bucket = bucketName, !.calls = 1], r),
                      NoObj, FALSE)
    /\ UNCHANGED <<store, cache, tasks, known, donePuts, writer, load, main>>

(***************************************************************************)
(* Goroutines.                                                             *)
(***************************************************************************)
\* A backing write bound to the request's context: it is given up once the
\* handler has returned.
BackgroundPutOfRequest(t) ==
    /\ t \in tasks /\ t.kind = "put"
    /\ \E q \in Clients : procs[q].id = t.id /\ procs[q].pc = "put_ret"
    /\ \E e \in svcPutObject(load.putFails) :
          /\ store' = IF e.isErr THEN store
                      ELSE [store EXCEPT ![t.obj] = StoredObject(t.value.bytes)]
          /\ procs' = AssignErr(t.id, e)
    /\ tasks' = tasks \ {t}
    /\ UNCHANGED <<cache, nreq, known, donePuts, writer, load, main>>

\* Lines 47-51: the backing write of a put, with context.Background().
BackgroundPut(t) ==
    /\ t \in tasks /\ t.kind = "put"
    /\ \E e \in svcPutObject(load.putFails) :
          /\ store' = IF e.isErr THEN store
                      ELSE [store EXCEPT ![t.obj] = StoredObject(t.value.bytes)]
          /\ procs' = AssignErr(t.id, e)
    /\ tasks' = tasks \ {t}
    /\ UNCHANGED <<cache, nreq, known, donePuts, writer, load, main>>

\* Lines 130-134: s.GetObject(context.Background(), bucket, key, ""), the
\* lookup of lines 90-113.
WarmUpGetObject(t) ==
    /\ t \in tasks /\ t.kind = "warm" /\ t.pc = "start"
    /\ IF cache[BodyCacheKey(t.obj.bucket, t.obj.key)].kind = "bytes"
       THEN tasks' = tasks \ {t} /\ procs' = AssignErr(t.id, NoErr)
       ELSE tasks' = (tasks \ {t}) \cup {[t EXCEPT !.pc = "fetch"]} /\ procs' = procs
    /\ UNCHANGED <<store, cache, nreq, known, donePuts, writer, load, main>>

\* The warm-up's lines 115-123.
WarmUpFetch(t) ==
    /\ t \in tasks /\ t.kind = "warm" /\ t.pc = "fetch"
    /\ \E r \in svcGetObject(store, t.obj, <<>>, load.fails) :
          IF r.err.isErr
          THEN tasks' = tasks \ {t} /\ procs' = AssignErr(t.id, r.err)
          ELSE /\ tasks' = (tasks \ {t})
                              \cup {[t EXCEPT !.pc = "fill", !.value = BytesVal(ReadAll(r.bytes))]}
               /\ procs' = procs
    /\ UNCHANGED <<store, cache, nreq, known, donePuts, writer, load, main>>

\* The warm-up's lines 125-127 and 137.
WarmUpFill(t) ==
    LET cacheKey == BodyCacheKey(t.obj.bucket, t.obj.key) IN
    /\ t \in tasks /\ t.kind = "warm" /\ t.pc = "fill"
    /\ cache' = [cache EXCEPT ![cacheKey] = t.value]
    /\ writer' = [writer EXCEPT ![cacheKey] = "fill"]
    /\ tasks' = tasks \ {t}
    /\ procs' = AssignErr(t.id, NoErr)
    /\ UNCHANGED <<store, nreq, known, donePuts, load, main>>

(***************************************************************************)
(* Specifications.                                                         *)
(***************************************************************************)
ListBucketNames == Buckets \cup {"nobucket"}

Step(p) ==
    \/ GetObjectFetch(p)
    \/ GetObjectFill(p)
    \/ GetObjectRet(p)
    \/ PutObjectSet(p)
    \/ PutObjectRet(p)
    \/ HeadObjectFetch(p)
    \/ HeadObjectStore(p)

Background ==
    \E t \in tasks :
        \/ BackgroundPut(t)
        \/ WarmUpGetObject(t)
        \/ WarmUpFetch(t)
        \/ WarmUpFill(t)

\* The object operations.
Next ==
    \/ \E p \in Clients, o \in Objects, r \in load.ranges : GetObject(p, o, r)
    \/ \E p \in Clients, o \in Objects, b \in Bodies : PutObject(p, o, b, TRUE)
    \/ \E p \in Clients, o \in Objects : PutObject(p, o, BodyY, FALSE)
    \/ \E p \in Clients, o \in Objects : HeadObject(p, o)
    \/ \E p \in Clients, o \in Objects : DeleteObject(p, o)
    \/ \E p \in Clients : Step(p)
    \/ Background

\* All six routes.
NextAPI ==
    \/ Next
    \/ \E p \in Clients : ListBuckets(p)
    \/ \E p \in Clients, b \in ListBucketNames : ListObjects(p, b)

\* The PUT route with streamed and plain bodies, well framed and broken.
NextPut ==
    \/ \E p \in Clients, f \in Framings :
          \E n \in DecodedLengths(f.payload) :
             PutRoute(p, ObjA, HTTPPut(StreamingContentSHA256, n, f.body))
    \/ \E p \in Clients, f \in Framings :
          PutRoute(p, ObjA, HTTPPut(StreamingContentSHA256, Itoa(Len(f.payload)),
                                    CutShort(f.body)))
    \/ \E p \in Clients, f \in Framings :
          PutRoute(p, ObjA, HTTPPut("UNSIGNED-PAYLOAD", <<>>, f.body))
    \/ \E p \in Clients : PutObjectSet(p) \/ PutObjectRet(p)
    \/ \E t \in tasks : BackgroundPut(t)

\* The routes that answer with metadata: HEAD and the two listings.
NextMeta ==
    \/ \E p \in Clients, o \in Objects : HeadObject(p, o)
    \/ \E p \in Clients : HeadObjectFetch(p) \/ HeadObjectStore(p)
    \/ \E p \in Clients : ListBuckets(p)
    \/ \E p \in Clients, b \in ListBucketNames : ListObjects(p, b)

(***************************************************************************)
(* func main after startup (part_000, lines 76-90).                        *)
(***************************************************************************)
\* Lines 79-81: SIGINT or SIGTERM arrives on c; the goroutine goes on to
\* send it on errs.  Later signals find nobody reading c.
Signal(sig) ==
    /\ Running /\ main.c = "none"
    /\ main' = [main EXCEPT !.c = sig]
    /\ UNCHANGED <<store, cache, procs, tasks, nreq, load, known, donePuts, writer>>

\* Line 86: http.ListenAndServe returns; the goroutine goes on to send the
\* error on errs.  Requests under way go on.
ListenerFails(e) ==
    /\ Serving
    /\ main' = [main EXCEPT !.served = e]
    /\ UNCHANGED <<store, cache, procs, tasks, nreq, load, known, donePuts, writer>>

\* A main that lets the requests and goroutines finish before it returns.
ExitDrained ==
    /\ Running
    /\ \A p \in Clients : Free(p)
    /\ tasks = {}
    /\ \E v \in {main.c, main.served} \ {"none", "serving"} :
          main' = [main EXCEPT !.pc = "exit", !.exit = v]
    /\ UNCHANGED <<store, cache, procs, tasks, nreq, load, known, donePuts, writer>>

\* Line 89: main receives from errs the value of a goroutine that is
\* sending, logs it and returns, which ends the process.
Exit ==
    /\ Running
    /\ \E v \in {main.c, main.served} \ {"none", "serving"} :
          main' = [main EXCEPT !.pc = "exit", !.exit = v]
    /\ UNCHANGED <<store, cache, procs, tasks, nreq, load, known, donePuts, writer>>

\* The process from startup to its exit: puts and their backing writes
\* while it runs, signals, a failing listener.
NextMain ==
    \/ \E p \in Clients, o \in Objects, b \in Bodies : PutObject(p, o, b, TRUE)
    \/ Running /\ \E p \in Clients : PutObjectSet(p) \/ PutObjectRet(p)
    \/ Running /\ \E t \in tasks : BackgroundPut(t)
    \/ \E sig \in Signals : Signal(sig)
    \/ \E e \in ListenErrs : ListenerFails(e)
    \/ Exit

\* Calls on the storage that write and remove: puts with their backing
\* writes, deletes of objects, and the creation and deletion of buckets.
NextAdmin ==
    \/ \E p \in Clients, o \in Objects, b \in Bodies : PutObject(p, o, b, TRUE)
    \/ \E p \in Clients : PutObjectSet(p) \/ PutObjectRet(p)
    \/ \E t \in tasks : BackgroundPut(t)
    \/ \E p \in Clients, o \in Objects : DeleteObject(p, o)
    \/ \E p \in Clients, b \in ListBucketNames : CreateBucket(p, b)
    \/ \E p \in Clients, b \in ListBucketNames : DeleteBucket(p, b)

\* Two clients at once.
Spec == Init /\ [][Next]_vars

\* One client, its requests one after another, and the goroutines.
SpecSeq == InitSeq /\ [][Next]_vars

\* One client on all six routes, with every Range header and every failure.
SpecAPI == InitAPI /\ [][NextAPI]_vars

\* One client, one PUT.
SpecPut == InitPut /\ [][NextPut]_vars

\* The process until it exits; main is scheduled when a value waits on errs.
SpecMain == InitMain /\ [][NextMain]_vars /\ WF_vars(Exit)

\* Puts, with bodies that can and cannot be read, and their backing writes.
NextWrites ==
    \/ \E p \in Clients, o \in Objects, b \in Bodies : PutObject(p, o, b, TRUE)
    \/ \E p \in Clients, o \in Objects : PutObject(p, o, BodyY, FALSE)
    \/ \E p \in Clients : PutObjectSet(p) \/ PutObjectRet(p)
    \/ \E t \in tasks : BackgroundPut(t)

\* The goroutines a run of SpecWrites can start for its puts.
PutTasks ==
    [id : 1..MaxWriteReqs, kind : {"put"}, obj : Objects, pc : {"start"},
     value : {BytesVal(b) : b \in Bodies}, length : {Len(b) : b \in Bodies}]

\* One client that puts, with the scheduler's promise: a goroutine that can
\* run, runs.
SpecWrites ==
    InitWrites /\ [][NextWrites]_vars /\ \A t \in PutTasks : WF_vars(BackgroundPut(t))

\* One client that puts over a provider that takes every write.
SpecWritesOk == InitWritesOk /\ [][NextWrites]_vars

\* Gets with and without a range, puts and heads, with their goroutines.
NextWarm ==
    \/ \E p \in Clients, o \in Objects, r \in load.ranges : GetObject(p, o, r)
    \/ \E p \in Clients, o \in Objects, b \in Bodies : PutObject(p, o, b, TRUE)
    \/ \E p \in Clients, o \in Objects : HeadObject(p, o)
    \/ \E p \in Clients : Step(p)
    \/ Background

\* A step of a warm-up goroutine.
WarmUp == \E t \in tasks : WarmUpGetObject(t) \/ WarmUpFetch(t) \/ WarmUpFill(t)

\* One client that reads, with the scheduler's promise: while a warm-up
\* goroutine can run, one of them runs.
SpecWarm == InitWarm /\ [][NextWarm]_vars /\ WF_vars(WarmUp)

\* One client on the HEAD route, over objects with partial metadata.
NextPartial ==
    \/ \E p \in Clients, o \in Objects : HeadObject(p, o)
    \/ \E p \in Clients : HeadObjectFetch(p) \/ HeadObjectStore(p)

SpecPartial == InitPartial /\ [][NextPartial]_vars

\* One client that writes and removes objects and buckets.
SpecAdmin == InitAdmin /\ [][NextAdmin]_vars

\* One client on the HEAD and list routes, over objects and buckets with
\* different metadata.
SpecMeta == InitMeta /\ [][NextMeta]_vars

(***************************************************************************)
(* Properties.                                                             *)
(***************************************************************************)
\* The step in which client p's request for operation op enters the server.
Issues(p, op) ==
    /\ nreq' = nreq + 1
    /\ procs'[p].id = nreq'
    /\ procs'[p].op = op

Answered(rec, op) == rec.pc = "done" /\ rec.op = op
Succeeded(rec) == ~rec.res.panic /\ ~rec.res.err.isErr
PutUnderWay(o) ==
    \E q \in Clients : procs[q].op = "PutObject" /\ procs[q].obj = o
                          /\ procs[q].pc \in {"put_set", "put_ret"}

\* C1: a GetObject with no range that begins after a PutObject of data to the
\* same key returned success, with no PutObject or DeleteObject on the key in
\* between, returns exactly data.
C1_ReadAfterWrite ==
    \A p \in Clients :
        LET rec == procs[p] IN
        (Answered(rec, "GetObject") /\ rec.range = <<>> /\ rec.expect.src = "put")
            => (Succeeded(rec) /\ rec.res.bytes = rec.expect.bytes)

\* C2: once no PutObject to a key is under way, a body entry that a put
\* wrote last holds the complete body of one of the puts that returned.
C2_PutsDoNotCorrupt ==
    \A o \in Objects :
        LET cacheKey == BodyCacheKey(o.bucket, o.key) IN
        (~PutUnderWay(o) /\ writer[cacheKey] = "put")
            => (cache[cacheKey].kind = "bytes" /\ cache[cacheKey].bytes \in donePuts[o])

\* Two puts of different bodies to one key overlapped, both returned, and
\* the entry holds the body of the one that came first.
C2_Witness ==
    /\ Answered(procs["c1"], "PutObject") /\ Answered(procs["c2"], "PutObject")
    /\ procs["c1"].obj = ObjA /\ procs["c2"].obj = ObjA
    /\ Succeeded(procs["c1"]) /\ Succeeded(procs["c2"])
    /\ procs["c1"].content # procs["c2"].content
    /\ procs["c1"].id < procs["c2"].id
    /\ writer[BodyCacheKey("b", <<"k">>)] = "put"
    /\ cache[BodyCacheKey("b", <<"k">>)] = BytesVal(procs["c1"].content)

\* C3: DeleteObject(bucket, key) removes the body entry and leaves every
\* other entry, the metadata entry of the key among them, as it was; a
\* GetObject that finds the body entry removed goes to the domain service and
\* a HeadObject that finds the metadata entry returns it.
C3_DeleteStep ==
    \A p \in Clients, o \in Objects :
        LET body == BodyCacheKey(o.bucket, o.key)
            head == HeadCacheKey(o.bucket, o.key)
        IN  /\ (Issues(p, "DeleteObject") /\ procs'[p].obj = o)
                => /\ Answered(procs'[p], "DeleteObject") /\ Succeeded(procs'[p])
                   /\ cache'[body] = Absent
                   /\ cache'[head] = cache[head]
                   /\ \A k \in CacheKeys \ {body} : cache'[k] = cache[k]
            /\ (Issues(p, "GetObject") /\ procs'[p].obj = o /\ writer[body] = "delete")
                => /\ cache[body] = Absent
                   /\ procs'[p].pc = "get_fetch"
            /\ (Issues(p, "HeadObject") /\ procs'[p].obj = o /\ cache[head].kind = "head")
                => /\ Answered(procs'[p], "HeadObject") /\ procs'[p].calls = 0
                   /\ procs'[p].res = RetMeta(cache[head].meta)

C4_SecondGetIsHit ==
    \A p \in Clients :
        LET rec == procs[p] IN
        (Answered(rec, "GetObject") /\ rec.range = <<>> /\ rec.expect.src = "get")
            => (Succeeded(rec) /\ rec.res.bytes = rec.expect.bytes /\ rec.calls = 0)

\* C5: a GetObject served from cached bytes B of length N returns B[s:e)
\* for "bytes=s-e" with 0 <= s <= e <= N and B[s:N] for "bytes=s-" with
\* 0 <= s <= N, without a call to the domain service.
C5_CacheHitRanges ==
    \A p \in Clients :
        LET rec == procs[p]
            B   == rec.seen.bytes
            N   == Len(B)
        IN  (Answered(rec, "GetObject") /\ rec.seen.kind = "bytes")
                => /\ \A s \in 0..N, e \in 0..N :
                        (s <= e /\ rec.range = ClosedRange(s, e))
                            => /\ Succeeded(rec) /\ rec.calls = 0
                               /\ rec.res.bytes = SubSeq(B, s + 1, e)
                   /\ \A s \in 0..N :
                        rec.range = OpenRange(s)
                            => /\ Succeeded(rec) /\ rec.calls = 0
                               /\ rec.res.bytes = SubSeq(B, s + 1, N)

C7_HeadStep ==
    \A p \in Clients, o \in Objects :
        LET head == HeadCacheKey(o.bucket, o.key) IN
        /\ (Issues(p, "HeadObject") /\ procs'[p].obj = o)
            => /\ cache' = cache
               /\ procs'[p].calls = 0
               /\ IF cache[head].kind = "head"
                  THEN /\ Answered(procs'[p], "HeadObject")
                       /\ procs'[p].res = RetMeta(cache[head].meta)
                  ELSE procs'[p].pc = "head_fetch"
        /\ (procs[p].pc = "head_fetch" /\ procs[p].obj = o /\ procs'[p].pc # "head_fetch")
            => /\ cache' = cache
               /\ procs'[p].calls = 1
               /\ \/ Answered(procs'[p], "HeadObject") /\ procs'[p].res.err.isErr
                  \/ /\ procs'[p].pc = "head_store"
                     /\ procs'[p].value = HeadVal(MetaOf(store[o]))
        /\ (procs[p].pc = "head_store" /\ procs[p].obj = o /\ procs'[p].pc # "head_store")
            => /\ Answered(procs'[p], "HeadObject") /\ Succeeded(procs'[p])
               /\ procs'[p].calls = 1
               /\ procs'[p].res = RetMeta(procs[p].value.meta)
               /\ cache'[head] = HeadVal(procs[p].value.meta)
               /\ \A k \in CacheKeys \ {head} : cache'[k] = cache[k]

C7_HeadObjectCaches == [][C7_HeadStep]_vars

\* A HeadObject was answered from the entry an earlier HeadObject stored.
C7_Witness ==
    \E p \in Clients :
        /\ Answered(procs[p], "HeadObject") /\ procs[p].calls = 0
        /\ procs[p].seen.kind = "head" /\ writer[HeadCacheKey("b", <<"k">>)] = "head"
        /\ procs[p].obj = ObjA /\ procs[p].res = RetMeta(procs[p].seen.meta)

\* C8: when the storage operation returns an error the endpoint returns a
\* nil error and an APIError response whose code and message are the
\* provider's when the error carries them, and otherwise "InternalError" and
\* the error's text; no endpoint returns a non-nil error.
C8_ErrorsBecomeResponses ==
    \A p \in Clients :
        LET rec == procs[p]
            e   == rec.res.err
        IN  (rec.pc = "done" /\ ~rec.res.panic)
                => /\ ~rec.ep.err.isErr
                   /\ e.isErr
                        => /\ ~rec.ep.panic
                           /\ rec.ep.response.type = "APIErrorResponse"
                           /\ rec.ep.response.Code = IF e.api THEN e.code ELSE "InternalError"
                           /\ rec.ep.response.Message = IF e.api THEN <<e.message>> ELSE e.text
                           /\ rec.wire.status \in {404, 500}

\* An error without provider fields came back as InternalError.
C8_Witness ==
    \E p \in Clients :
        /\ Answered(procs[p], "ListObjects") /\ procs[p].res.err = ConnErr
        /\ procs[p].ep = Returned(APIErrorResponse("InternalError", ConnErr.text), NoErr)

\* C9: an APIError response goes out with status 404 when its code is
\* NotFound, NoSuchKey or NoSuchBucket and with status 500 for any other
\* code, on every route.
C9_StatusOfAPIError ==
    \A p \in Clients :
        LET rec == procs[p] IN
        (rec.pc = "done" /\ ~rec.ep.panic /\ rec.ep.response.type = "APIErrorResponse")
            => rec.wire.status =
                  IF rec.ep.response.Code \in {"NotFound", "NoSuchKey", "NoSuchBucket"}
                  THEN 404 ELSE 500

\* NoSuchBucket went out as 404 through the default encoder.
C9_Witness ==
    \E p \in Clients :
        /\ Answered(procs[p], "ListObjects")
        /\ procs[p].ep.response.type = "APIErrorResponse"
        /\ procs[p].ep.response.Code = "NoSuchBucket"
        /\ procs[p].wire.status = 404 /\ procs[p].wire.form = "xml"

C10_HitStep ==
    \A p \in Clients, o \in Objects :
        (/\ Issues(p, "GetObject") /\ procs'[p].obj = o
         /\ procs'[p].range = BadRange
         /\ cache[BodyCacheKey(o.bucket, o.key)].kind = "bytes")
            => /\ Answered(procs'[p], "GetObject")
               /\ procs'[p].res.err.isErr /\ ~procs'[p].res.err.api
               /\ procs'[p].ep = Returned(APIErrorResponse("InternalError",
                                                           procs'[p].res.err.text), NoErr)
               /\ procs'[p].wire.status = 500
               /\ procs'[p].calls = 0
               /\ cache' = cache /\ tasks' = tasks

C11_ChunkedBodyDecoded ==
    \A p \in Clients, f \in Framings :
        LET rec == procs[p] IN
        (/\ rec.op = "PutObject" /\ rec.pc # "idle"
         /\ rec.http.ContentSHA256 = StreamingContentSHA256
         /\ rec.http.Body = f.body)
            => /\ rec.derr = NoErr
               /\ rec.content = f.payload
               /\ rec.pc \in {"put_set", "put_ret", "done"}
               /\ rec.pc # "put_set" => rec.value = BytesVal(f.payload)
               /\ rec.pc = "done" => rec.res = RetNil
               /\ \A n \in 0..(MaxPayload + 4) :
                    rec.http.DecodedContentLength = Itoa(n) => rec.length = n

\* A three-byte payload sent in two chunks arrived as three bytes with
\* content length 3, on a request whose length on the wire is larger.
C11_Witness ==
    \E p \in Clients :
        /\ Answered(procs[p], "PutObject")
        /\ procs[p].http.Body = FrameChunks(<<<<7>>, <<13, 7>>>>)
        /\ procs[p].http.DecodedContentLength = Itoa(3)
        /\ procs[p].content = <<7, 13, 7>> /\ procs[p].length = 3
        /\ procs[p].http.ContentLength > 3
        /\ cache[BodyCacheKey("b", <<"k">>)] = BytesVal(<<7, 13, 7>>)

\* C14: when the decoder fails the endpoint is not called and the error
\* encoder answers 404 for an error with provider code and message, whatever
\* the code, and otherwise sets no status, so that 200 goes out, in both
\* cases with an XML error document.
C14_DecodeErrorStatus ==
    \A p \in Clients :
        LET rec == procs[p] IN
        rec.derr.isErr
            => /\ rec.pc = "done"
               /\ rec.res = NoRes /\ rec.ep = Returned(NoResponse, NoErr)
               /\ rec.wire.status = IF rec.derr.api THEN 404 ELSE 200
               /\ rec.wire.form = "xml"
               /\ rec.wire.doc = IF rec.derr.api
                                 THEN APIErrorResponse(rec.derr.code, <<rec.derr.message>>)
                                 ELSE APIErrorResponse("UnknownError", rec.derr.text)

\* A decoding error with the provider code IncompleteBody went out as 404.
C14_Witness ==
    \E p \in Clients :
        /\ procs[p].derr.isErr /\ procs[p].derr.api
        /\ procs[p].derr.code = "IncompleteBody"
        /\ procs[p].wire.status = 404
        /\ cache[BodyCacheKey("b", <<"k">>)] = Absent

\* C12: a HeadObject that succeeds answers with exactly four headers, the
\* content length in decimal, the content type, the ETag and the instant of
\* the last modification as an HTTP date, and the HEAD encoder sends them
\* with status 200 and no body.
C12_HeadHeaders ==
    \A p \in Clients :
        LET rec == procs[p]
            m   == rec.res.meta
            h   == rec.ep.response.Metadata
        IN  (Answered(rec, "HeadObject") /\ ~rec.res.err.isErr /\ ~rec.res.panic)
                => /\ rec.ep = Returned(rec.ep.response, NoErr)
                   /\ rec.ep.response.type = "HeadObjectResponse"
                   /\ DOMAIN h = {"ContentLength", "ContentType", "ETag", "LastModified"}
                   /\ h.ContentLength # <<>> /\ ParseInt(h.ContentLength) = m.ContentLength
                   /\ h.ContentType = m.ContentType.v
                   /\ h.ETag = m.ETag.v
                   /\ h.LastModified.layout = HTTPDate
                   /\ InstantOf(h.LastModified) = m.LastModified.unix
                   /\ rec.wire.status = 200 /\ rec.wire.headers = h
                   /\ rec.wire.form = "none" /\ rec.wire.raw = <<>>
                   /\ rec.wire.doc = NoResponse

\* A HEAD of the three-byte text object modified at instant 1 was answered.
C12_Witness ==
    \E p \in Clients :
        /\ Answered(procs[p], "HeadObject")
        /\ procs[p].res.meta = MetaOf(MetaObject(BodyX, "text/plain", 1))
        /\ procs[p].wire.headers.ContentLength = Itoa(3)
        /\ procs[p].wire.headers.ContentType = "text/plain"
        /\ procs[p].wire.headers.ETag = BodyX
        /\ procs[p].wire.headers.LastModified.clock = 1
        /\ procs[p].wire.form = "none"

C16_ListsPassThrough ==
    [][\A p \in Clients :
          /\ Issues(p, "ListBuckets")
                => /\ procs'[p].calls = 1
                   /\ procs'[p].res \in {svcListBuckets(load.bucketList)}
                                           \cup {RetErr(e) : e \in load.fails}
                   /\ cache' = cache /\ writer' = writer /\ store' = store
          /\ Issues(p, "ListObjects")
                => /\ procs'[p].calls = 1
                   /\ procs'[p].res \in {svcListObjects(store, procs'[p].bucket, load.more)}
                                           \cup {RetErr(e) : e \in load.fails}
                   /\ cache' = cache /\ writer' = writer /\ store' = store]_vars

\* Bucket "b" was listed as empty while the cache holds a body for its key.
C16_Witness ==
    \E p \in Clients :
        /\ Answered(procs[p], "ListObjects") /\ Succeeded(procs[p])
        /\ procs[p].bucket = "b" /\ procs[p].calls = 1
        /\ procs[p].res.list = <<>>
        /\ cache[BodyCacheKey("b", <<"k">>)].kind = "bytes"
        /\ ~store[ObjA].present

EventOccurred == main.c # "none" \/ main.served # "serving"
C17_ExitOnFirstEvent ==
    /\ [](main.pc = "exit" => /\ main.exit \in Signals \cup ListenErrs
                              /\ main.exit \in {main.c, main.served})
    /\ [](~EventOccurred => main.pc = "wait")
    /\ [][/\ (main.pc = "wait" /\ main'.pc = "exit")
                => <<store, cache, procs, tasks>>' = <<store, cache, procs, tasks>>
          /\ main.pc = "exit" => vars' = vars]_vars
    /\ (EventOccurred ~> main.pc = "exit")

\* main has logged the signal and returned while the listener was serving, a
\* put had not returned and its backing write had not run.
C17_Witness ==
    /\ main.pc = "exit" /\ main.exit = "terminated"
    /\ main.served = "serving"
    /\ \E p \in Clients : procs[p].pc = "put_ret"
    /\ tasks # {}

\* C18: once a PutObject on a key was acknowledged, with no put or delete on
\* the key since, and no fill of the key is under way (no GetObject miss
\* between its backing read and its cache.Set, no warm-up goroutine), the
\* cache holds the put's body, which is what a GetObject with no range
\* returns.  Stated for the keys that no metadata entry shares.
FillUnderWay(o) ==
    \/ \E q \in Clients : procs[q].op = "GetObject" /\ procs[q].obj = o
                             /\ procs[q].pc \in {"get_fetch", "get_fill", "get_ret"}
    \/ \E t \in tasks : t.kind = "warm" /\ t.obj = o
C18_FillKeepsPut ==
    \A o \in Objects :
        LET cacheKey == BodyCacheKey(o.bucket, o.key) IN
        (/\ cacheKey \notin {HeadCacheKey(x.bucket, x.key) : x \in Objects}
         /\ known[o].src = "put"
         /\ ~FillUnderWay(o))
            => cache[cacheKey] = BytesVal(known[o].bytes)

\* C19: the step of a PutObject that has read its body starts one goroutine
\* that writes the same bucket, key and bytes to the domain service, no
\* other step starts one, and every such goroutine makes its call in the
\* end, whether or not the request has returned in the meantime.
C19_OneBackgroundPut ==
    /\ [][\A p \in Clients :
             (procs[p].pc = "put_set" /\ procs'[p].pc = "put_ret")
                => \E t \in tasks' \ tasks :
                      /\ tasks' = tasks \cup {t}
                      /\ t.kind = "put" /\ t.id = procs[p].id
                      /\ t.obj = procs[p].obj
                      /\ t.value = BytesVal(procs[p].content)]_vars
    /\ [][tasks' \ tasks # {}
             => \E p \in Clients : procs[p].pc = "put_set" /\ procs'[p].pc = "put_ret"]_vars
    /\ [](\A t \in tasks : t \in PutTasks)
    /\ \A t \in PutTasks : (t \in tasks) ~> (t \notin tasks)

\* The put of BodyY has returned, its goroutine has run and the backing
\* store holds BodyY.
C19_Witness ==
    \E p \in Clients :
        /\ Answered(procs[p], "PutObject") /\ Succeeded(procs[p])
        /\ procs[p].obj = ObjA /\ procs[p].content = BodyY
        /\ procs[p].id = 1
        /\ tasks = {}
        /\ store[ObjA] = StoredObject(BodyY)

\* C20: with puts one after another and backing writes that all succeed,
\* once no put and no backing write is under way the backing store holds the
\* body of the last put acknowledged for a key, as the cache does.
C20_StoreHoldsLastPut ==
    \A o \in Objects :
        (tasks = {} /\ ~PutUnderWay(o) /\ known[o].src = "put")
            => /\ cache[BodyCacheKey(o.bucket, o.key)] = BytesVal(known[o].bytes)
               /\ store[o].present /\ store[o].bytes = known[o].bytes

\* C21: every body entry of the cache holds the whole body of a PutObject to
\* its key or the whole answer of a backing GetObject with no range for its
\* key (what the store held at the start or what a put wrote to it), and a
\* miss with a range stores nothing.
PutBodies(o) ==
    donePuts[o] \cup {procs[q].content : q \in {x \in Clients :
                         procs[x].op = "PutObject" /\ procs[x].obj = o
                            /\ procs[x].pc = "put_ret"}}
StoredBodies == {ob.bytes : ob \in {x \in load.objects : x.present}}
WholeBodies(o) == PutBodies(o) \cup StoredBodies
C21_BodyEntriesAreWholeBodies ==
    /\ [](\A o \in Objects :
            LET entry == cache[BodyCacheKey(o.bucket, o.key)] IN
            entry.kind # "none" => (entry.kind = "bytes" /\ entry.bytes \in WholeBodies(o)))
    /\ [][\A p \in Clients :
             (procs[p].pc = "get_fill" /\ procs[p].range # <<>> /\ procs'[p].pc # "get_fill")
                => cache' = cache]_vars

\* C22: a GetObject with a range that misses and whose service call succeeds
\* returns the bytes the service gave for the range, leaves the cache alone
\* and starts one warm-up goroutine for the whole object; a warm-up step
\* starts no goroutine, and a warm-up whose backing read succeeded leads to
\* the whole body being stored under the body key.
RangedMiss(p) == procs[p].op = "GetObject" /\ procs[p].range # <<>>
WarmUpOf(rec) ==
    [id |-> rec.id, kind |-> "warm", obj |-> rec.obj, pc |-> "start",
     value |-> Absent, length |-> 0]
C23_NamespacesIndependent ==
    /\ \A o \in Objects :
          /\ writer[BodyCacheKey(o.bucket, o.key)] # "head"
          /\ writer[HeadCacheKey(o.bucket, o.key)] \in {"none", "head"}
    /\ \A o1, o2 \in Objects :
          BodyCacheKey(o1.bucket, o1.key) # HeadCacheKey(o2.bucket, o2.key)

\* C24: no step of a PutObject on an object, its background write included,
\* changes the head entry of that object, and a HeadObject that finds the
\* entry returns the cached metadata with no backing call, also after a put.
PutStep(o) ==
    \/ \E p \in Clients :
          /\ procs'[p].op = "PutObject" /\ procs'[p].obj = o
          /\ procs'[p].id # procs[p].id \/ procs'[p].pc # procs[p].pc
    \/ \E t \in tasks \ tasks' : t.kind = "put" /\ t.obj = o
C24_PutKeepsHead ==
    [][\A o \in Objects :
          LET headKey == HeadCacheKey(o.bucket, o.key) IN
          /\ PutStep(o) => cache'[headKey] = cache[headKey]
          /\ \A p \in Clients :
                (Issues(p, "HeadObject") /\ procs'[p].obj = o /\ cache[headKey].kind = "head")
                   => /\ Answered(procs'[p], "HeadObject")
                      /\ procs'[p].res = RetMeta(cache[headKey].meta)
                      /\ procs'[p].calls = 0
                      /\ cache' = cache]_vars
C24_Witness ==
    \E p \in Clients :
        /\ Answered(procs[p], "HeadObject") /\ procs[p].calls = 0
        /\ procs[p].res = RetMeta(MetaOf(StoredObject(BodyX)))
        /\ donePuts[procs[p].obj] = {BodyY}
        /\ store[procs[p].obj] = StoredObject(BodyY)
        /\ cache[BodyCacheKey(procs[p].obj.bucket, procs[p].obj.key)] = BytesVal(BodyY)

\* C25: a GetObject with a range "bytes=s-e" or "bytes=s-" that is served
\* from cached bytes returns what the backing store, with its inclusive end,
\* returns for the same bytes and the same range when it can satisfy it.
WellFormedRanges == {r \in AllRanges : ProviderRange(r).form \in {"closed", "open"}}
C25_HitEqualsMiss ==
    \A p \in Clients :
        LET rec  == procs[p]
            miss == ProviderGetObject(StoredObject(rec.seen.bytes), rec.range)
        IN  (Answered(rec, "GetObject") /\ rec.seen.kind = "bytes"
                /\ rec.range \in WellFormedRanges /\ ~miss.err.isErr)
               => rec.res = miss

\* C26: when the domain service answers a miss with an error, HeadObject and
\* GetObject return that error as it is, the cache stays as it was and no
\* goroutine is started, with a range or without.
ServiceErrors(results) == {r \in results : r.err.isErr}
C26_MissErrorPassedOn ==
    [][\A p \in Clients :
          LET rec == procs[p] IN
          /\ (rec.pc = "get_fetch" /\ procs'[p].pc # "get_fetch")
                => \/ procs'[p].pc = "get_fill" /\ procs'[p].value.kind = "bytes"
                   \/ /\ Answered(procs'[p], "GetObject")
                      /\ procs'[p].res
                            \in ServiceErrors(svcGetObject(store, rec.obj, rec.range, load.fails))
                      /\ procs'[p].res = RetErr(procs'[p].res.err)
                      /\ cache' = cache /\ tasks' = tasks /\ writer' = writer
          /\ (rec.pc = "head_fetch" /\ procs'[p].pc # "head_fetch")
                => \/ procs'[p].pc = "head_store" /\ procs'[p].value.kind = "head"
                   \/ /\ Answered(procs'[p], "HeadObject")
                      /\ procs'[p].res \in ServiceErrors(svcHeadObject(store, rec.obj, load.fails))
                      /\ procs'[p].res = RetErr(procs'[p].res.err)
                      /\ cache' = cache /\ tasks' = tasks /\ writer' = writer]_vars
C26_Witness ==
    /\ tasks = {}
    /\ \A k \in CacheKeys : cache[k] = Absent
    /\ \E p \in Clients :
          /\ Answered(procs[p], "GetObject") /\ procs[p].range = ClosedRange(1, 2)
          /\ procs[p].calls = 1 /\ procs[p].res = RetErr(SlowDown)
          /\ store[procs[p].obj].present
          /\ nreq = 2

\* C27: a PutObject whose body cannot be read returns the read error; the
\* cache, an older body under the same key included, stays as it was, no
\* goroutine is started for it and the backing store is never written by it.
C27_ReadErrorStopsPut ==
    /\ [][\A p \in Clients :
             (Issues(p, "PutObject") /\ procs'[p].pc # "put_set")
                => /\ Answered(procs'[p], "PutObject")
                   /\ procs'[p].res = RetErr(ReadErr)
                   /\ cache' = cache /\ writer' = writer
                   /\ tasks' = tasks /\ store' = store]_vars
    /\ [](\A p \in Clients :
             (Answered(procs[p], "PutObject") /\ procs[p].res.err.isErr)
                => /\ procs[p].value = Absent
                   /\ \A t \in tasks : t.id # procs[p].id)
C27_Witness ==
    \E p \in Clients :
        /\ Answered(procs[p], "PutObject") /\ procs[p].res = RetErr(ReadErr)
        /\ procs[p].id = 2 /\ procs[p].content = BodyY
        /\ cache[BodyCacheKey(procs[p].obj.bucket, procs[p].obj.key)] = BytesVal(BodyX)
        /\ writer[BodyCacheKey(procs[p].obj.bucket, procs[p].obj.key)] = "put"
        /\ tasks = {}
        /\ ~store[procs[p].obj].present

\* C28: a HeadObject that succeeds with metadata whose content type or ETag
\* is absent makes the endpoint panic: nothing is returned, no APIError
\* response is built and the connection ends without a response.  With both
\* present the endpoint returns.
C28_AbsentMetadataPanics ==
    \A p \in Clients :
        LET rec == procs[p]
            m   == rec.res.meta
        IN  (Answered(rec, "HeadObject") /\ ~rec.res.err.isErr)
               => IF m.ContentType.nil \/ m.ETag.nil
                  THEN /\ rec.ep = EndpointPanic
                       /\ rec.ep.response.type # "APIErrorResponse"
                       /\ rec.wire = Aborted
                  ELSE ~rec.ep.panic /\ rec.wire.status = 200
C28_Witness ==
    \E p \in Clients :
        /\ Answered(procs[p], "HeadObject") /\ ~procs[p].res.err.isErr
        /\ procs[p].res.meta.ETag.nil /\ ~procs[p].res.meta.ContentType.nil
        /\ procs[p].ep.panic /\ procs[p].wire.status = 0
        /\ procs[p].calls = 0
====
